---- MODULE Spec2Model ----
(***************************************************************************)
(* A model of the Prop Edge Engine of nba_player_props_model: the trailing *)
(* feature builders over the raw player game log, the team defense         *)
(* context, the name/team normalisers, the opponent resolver and the odds  *)
(* conversion of the inference scripts.                                    *)
(*                                                                         *)
(* Numbers.  pandas columns hold floats; a cell is modelled as an exact    *)
(* rational <<n, d>> in lowest terms with d > 0, NaN is <<0, 0>> and       *)
(* +inf/-inf are <<1, 0>>/<<-1, 0>>.  A standard deviation is carried as   *)
(* its square (the sample variance, ddof = 1, pandas' default).            *)
(*                                                                         *)
(* Strings are sequences of one-character strings.                         *)
(***************************************************************************)
EXTENDS Integers, Sequences, FiniteSets, TLC

VARIABLES
    log,        \* data/raw/player_game_logs.csv: sequence of player-game rows
    order,      \* "asc" | "desc": the order in which the log file lists games
    fmt,        \* the notation the log's source uses in MATCHUP
    fetched,    \* games appended to the log since the start
    train,      \* data/processed/train_points.csv, written by build_points_features
    columns,    \* the columns the later steps have added to the processed file
    latest,     \* result of predict_today_assists.build_latest_player_features(log)
    team_def,   \* team defense table of add_opponent_context.main
    props,      \* data/odds_logs/assists_props_normalized.csv: the normalized quotes
    team_map,   \* data/processed/player_team_map_current.csv: the roster of today
    pred_df,    \* pred_df of predict_today_assists_props_regression.main
    slate,      \* overs and unders of main, the picks of the day
    points_props,  \* data/odds_logs/points_props_normalized.csv
    points_out,    \* data/processed/today_points_prop_predictions.csv
    arg,        \* the argument handed to a helper function
    out,        \* what the helper returned for arg
    pipeline    \* run_today_pipeline.main: where it is and the exit codes so far

featVars == <<log, order, fmt, fetched, train, columns, latest, team_def>>

inferVars == <<props, team_map, pred_df, slate, points_props, points_out>>

helperVars == <<arg, out>>

pipeVars == <<pipeline>>

vars == <<featVars, inferVars, helperVars, pipeVars>>

-----------------------------------------------------------------------------
(* Bounds of the model *)

\* games already in the log file when the run starts: 0..MaxHist
MaxHist == 10
\* games appended while the model runs
MaxNew == 2
\* the bench player of the tracked team appears in the first BenchGames games
BenchGames == 2

\* words in a player name
MaxWords == 3

\* the largest American price quoted, either sign
MaxOdds == 200

\* games of a one-player season
SeasonGames == 11

\* scored candidates of a day with many players
MaxPool == 18

\* quotes in a table of quotes of several books
MaxQuotes == 3

\* the players of a day of the selection
MaxMix == 13

\* the rows of a raw log of quotes
MaxRaw == 3

-----------------------------------------------------------------------------
(* Rational cells *)

NaN == <<0, 0>>

R(x) == <<x, 1>>

IsNaN(c) == c = NaN

Abs(x) == IF x < 0 THEN -x ELSE x

RECURSIVE GCD(_, _)
GCD(a, b) == IF b = 0 THEN a ELSE GCD(b, a % b)

\* n / d as a cell; x/0 is NaN for x = 0 and a signed infinity otherwise
Frac(n, d) ==
    IF d = 0 THEN (IF n = 0 THEN NaN ELSE IF n > 0 THEN <<1, 0>> ELSE <<-1, 0>>)
    ELSE LET g == GCD(Abs(n), Abs(d))
             s == IF d < 0 THEN -1 ELSE 1
         IN  <<(s * n) \div g, (s * d) \div g>>

Add(a, b) == IF IsNaN(a) \/ IsNaN(b) THEN NaN ELSE Frac(a[1] * b[2] + b[1] * a[2], a[2] * b[2])

Sub(a, b) == IF IsNaN(a) \/ IsNaN(b) THEN NaN ELSE Frac(a[1] * b[2] - b[1] * a[2], a[2] * b[2])

Mul(a, b) == IF IsNaN(a) \/ IsNaN(b) THEN NaN ELSE Frac(a[1] * b[1], a[2] * b[2])

Div(a, b) == IF IsNaN(a) \/ IsNaN(b) THEN NaN ELSE Frac(a[1] * b[2], a[2] * b[1])

-----------------------------------------------------------------------------
(* Column operations of pandas *)

\* Series.shift(1): every value moves one row down, the first row is NaN
Shift1NoShift(col) == col

Shift1(col) == [i \in 1..Len(col) |-> IF i = 1 THEN NaN ELSE col[i - 1]]

RECURSIVE SumRange(_, _, _)
SumRange(col, a, b) == IF a > b THEN R(0) ELSE Add(col[a], SumRange(col, a + 1, b))

\* the window has w rows and none of them is NaN (min_periods = window)
WindowFull(col, i, w) == i >= w /\ \A j \in (i - w + 1)..i : ~IsNaN(col[j])

\* Series.rolling(w).sum()
RollingSum(col, w) ==
    [i \in 1..Len(col) |-> IF WindowFull(col, i, w) THEN SumRange(col, i - w + 1, i) ELSE NaN]

\* Series.rolling(w).mean()
RollingMean(col, w) ==
    [i \in 1..Len(col) |-> IF WindowFull(col, i, w) THEN Div(SumRange(col, i - w + 1, i), R(w)) ELSE NaN]

\* Series.rolling(w).std(), squared: (w*sum(x^2) - sum(x)^2) / (w*(w-1))
RollingStd(col, w) ==
    [i \in 1..Len(col) |->
        IF WindowFull(col, i, w)
        THEN LET s  == SumRange(col, i - w + 1, i)
                 sq == SumRange([j \in 1..Len(col) |-> Mul(col[j], col[j])], i - w + 1, i)
             IN  Div(Sub(Mul(R(w), sq), Mul(s, s)), R(w * (w - 1)))
        ELSE NaN]

\* element-wise a / b of two columns of one length
ColDiv(a, b) == [i \in 1..Len(a) |-> Div(a[i], b[i])]

Column(rows, f) == [i \in 1..Len(rows) |-> rows[i][f]]

-----------------------------------------------------------------------------
(* Strings *)

\* a missing string cell (NaN in an object column)
NA == <<"<NA>">>

\* str(NaN)
S_nan == <<"n", "a", "n">>

IsPrefixAt(s, pat, i) ==
    /\ i + Len(pat) - 1 <= Len(s)
    /\ \A j \in 1..Len(pat) : s[i + j - 1] = pat[j]

\* pat in s
Contains(s, pat) == \E i \in 1..(Len(s) + 1) : IsPrefixAt(s, pat, i)

\* .astype(str) of a string cell
AsStr(s) == IF s = NA THEN S_nan ELSE s

S_vs == <<" ", "v", "s", ".", " ">>
S_at == <<" ", "@", " ">>
S_dash == <<" ", "-", " ">>

LAL == <<"L", "A", "L">>
BOS == <<"B", "O", "S">>
MIA == <<"M", "I", "A">>

UpperChars ==
    <<"A", "B", "C", "D", "E", "F", "G", "H", "I", "J", "K", "L", "M",
      "N", "O", "P", "Q", "R", "S", "T", "U", "V", "W", "X", "Y", "Z">>

LowerChars ==
    <<"a", "b", "c", "d", "e", "f", "g", "h", "i", "j", "k", "l", "m",
      "n", "o", "p", "q", "r", "s", "t", "u", "v", "w", "x", "y", "z">>

LowerChar(c) ==
    IF \E i \in 1..26 : UpperChars[i] = c
    THEN LowerChars[CHOOSE i \in 1..26 : UpperChars[i] = c]
    ELSE c

UpperChar(c) ==
    IF \E i \in 1..26 : LowerChars[i] = c
    THEN UpperChars[CHOOSE i \in 1..26 : LowerChars[i] = c]
    ELSE c

IsAlphaChar(c) == \E i \in 1..26 : UpperChars[i] = c \/ LowerChars[i] = c

\* str.lower(), str.upper()
Lower(s) == [i \in 1..Len(s) |-> LowerChar(s[i])]

Upper(s) == [i \in 1..Len(s) |-> UpperChar(s[i])]

\* str.isalpha(): non-empty and every character a letter
IsAlpha(s) == Len(s) > 0 /\ \A i \in 1..Len(s) : IsAlphaChar(s[i])

IsSpace(c) == c = " "

RECURSIVE LStrip(_)
LStrip(s) == IF s # <<>> /\ IsSpace(Head(s)) THEN LStrip(Tail(s)) ELSE s

RECURSIVE RStrip(_)
RStrip(s) ==
    IF s # <<>> /\ IsSpace(s[Len(s)]) THEN RStrip(SubSeq(s, 1, Len(s) - 1)) ELSE s

\* str.strip()
Strip(s) == RStrip(LStrip(s))

\* str.replace(pat, rep): every non-overlapping occurrence, left to right
RECURSIVE Replace(_, _, _)
Replace(s, pat, rep) ==
    IF Len(s) < Len(pat) THEN s
    ELSE IF IsPrefixAt(s, pat, 1)
         THEN rep \o Replace(SubSeq(s, Len(pat) + 1, Len(s)), pat, rep)
         ELSE <<Head(s)>> \o Replace(Tail(s), pat, rep)

\* length of the leading run of non-space characters
RECURSIVE WordLen(_)
WordLen(s) == IF s = <<>> \/ IsSpace(Head(s)) THEN 0 ELSE 1 + WordLen(Tail(s))

\* str.split(): the maximal runs of non-space characters
RECURSIVE Split(_)
Split(s) ==
    LET t == LStrip(s)
        n == WordLen(t)
    IN  IF t = <<>> THEN <<>>
        ELSE <<SubSeq(t, 1, n)>> \o Split(SubSeq(t, n + 1, Len(t)))

\* " ".join(words)
RECURSIVE Join(_)
Join(words) ==
    IF words = <<>> THEN <<>>
    ELSE IF Len(words) = 1 THEN Head(words)
    ELSE Head(words) \o <<" ">> \o Join(Tail(words))

-----------------------------------------------------------------------------
(* Name and team normalisation of predict_today_assists_props_regression.py *)

\* [" jr.", " sr.", " iii", " ii", " iv"]
SuffixTokens ==
    <<<<" ", "j", "r", ".">>, <<" ", "s", "r", ".">>, <<" ", "i", "i", "i">>,
      <<" ", "i", "i">>, <<" ", "i", "v">>>>

\* the loop  for tok in [...]: s = s.replace(tok, "")
RECURSIVE RemoveTokens(_, _)
RemoveTokens(s, toks) ==
    IF toks = <<>> THEN s
    ELSE RemoveTokens(Replace(s, Head(toks), <<>>), Tail(toks))

norm_name(s0) ==
    LET s1 == Strip(Lower(AsStr(s0)))
        s2 == RemoveTokens(s1, SuffixTokens)
        s3 == Replace(Replace(s2, <<".">>, <<>>), <<"'">>, <<>>)
    IN  Join(Split(s3))

TEAM_NAME_TO_ABBR ==
    <<
      <<<<"a", "t", "l", "a", "n", "t", "a", " ", "h", "a", "w", "k", "s">>,
        <<"A", "T", "L">>>>,
      <<<<"b", "o", "s", "t", "o", "n", " ", "c", "e", "l", "t", "i", "c", "s">>,
        <<"B", "O", "S">>>>,
      <<<<"b", "r", "o", "o", "k", "l", "y", "n", " ", "n", "e", "t", "s">>,
        <<"B", "K", "N">>>>,
      <<<<"c", "h", "a", "r", "l", "o", "t", "t", "e", " ", "h", "o", "r", "n", "e", "t", "s">>,
        <<"C", "H", "A">>>>,
      <<<<"c", "h", "i", "c", "a", "g", "o", " ", "b", "u", "l", "l", "s">>,
        <<"C", "H", "I">>>>,
      <<<<"c", "l", "e", "v", "e", "l", "a", "n", "d", " ", "c", "a", "v", "a", "l", "i", "e", "r", "s">>,
        <<"C", "L", "E">>>>,
      <<<<"d", "a", "l", "l", "a", "s", " ", "m", "a", "v", "e", "r", "i", "c", "k", "s">>,
        <<"D", "A", "L">>>>,
      <<<<"d", "e", "n", "v", "e", "r", " ", "n", "u", "g", "g", "e", "t", "s">>,
        <<"D", "E", "N">>>>,
      <<<<"d", "e", "t", "r", "o", "i", "t", " ", "p", "i", "s", "t", "o", "n", "s">>,
        <<"D", "E", "T">>>>,
      <<<<"g", "o", "l", "d", "e", "n", " ", "s", "t", "a", "t", "e", " ", "w", "a", "r", "r", "i", "o", "r", "s">>,
        <<"G", "S", "W">>>>,
      <<<<"h", "o", "u", "s", "t", "o", "n", " ", "r", "o", "c", "k", "e", "t", "s">>,
        <<"H", "O", "U">>>>,
      <<<<"i", "n", "d", "i", "a", "n", "a", " ", "p", "a", "c", "e", "r", "s">>,
        <<"I", "N", "D">>>>,
      <<<<"l", "o", "s", " ", "a", "n", "g", "e", "l", "e", "s", " ", "c", "l", "i", "p", "p", "e", "r", "s">>,
        <<"L", "A", "C">>>>,
      <<<<"l", "a", " ", "c", "l", "i", "p", "p", "e", "r", "s">>,
        <<"L", "A", "C">>>>,
      <<<<"l", "o", "s", " ", "a", "n", "g", "e", "l", "e", "s", " ", "l", "a", "k", "e", "r", "s">>,
        <<"L", "A", "L">>>>,
      <<<<"l", "a", " ", "l", "a", "k", "e", "r", "s">>,
        <<"L", "A", "L">>>>,
      <<<<"m", "e", "m", "p", "h", "i", "s", " ", "g", "r", "i", "z", "z", "l", "i", "e", "s">>,
        <<"M", "E", "M">>>>,
      <<<<"m", "i", "a", "m", "i", " ", "h", "e", "a", "t">>,
        <<"M", "I", "A">>>>,
      <<<<"m", "i", "l", "w", "a", "u", "k", "e", "e", " ", "b", "u", "c", "k", "s">>,
        <<"M", "I", "L">>>>,
      <<<<"m", "i", "n", "n", "e", "s", "o", "t", "a", " ", "t", "i", "m", "b", "e", "r", "w", "o", "l", "v", "e", "s">>,
        <<"M", "I", "N">>>>,
      <<<<"n", "e", "w", " ", "o", "r", "l", "e", "a", "n", "s", " ", "p", "e", "l", "i", "c", "a", "n", "s">>,
        <<"N", "O", "P">>>>,
      <<<<"n", "e", "w", " ", "y", "o", "r", "k", " ", "k", "n", "i", "c", "k", "s">>,
        <<"N", "Y", "K">>>>,
      <<<<"o", "k", "l", "a", "h", "o", "m", "a", " ", "c", "i", "t", "y", " ", "t", "h", "u", "n", "d", "e", "r">>,
        <<"O", "K", "C">>>>,
      <<<<"o", "r", "l", "a", "n", "d", "o", " ", "m", "a", "g", "i", "c">>,
        <<"O", "R", "L">>>>,
      <<<<"p", "h", "i", "l", "a", "d", "e", "l", "p", "h", "i", "a", " ", "7", "6", "e", "r", "s">>,
        <<"P", "H", "I">>>>,
      <<<<"p", "h", "o", "e", "n", "i", "x", " ", "s", "u", "n", "s">>,
        <<"P", "H", "X">>>>,
      <<<<"p", "o", "r", "t", "l", "a", "n", "d", " ", "t", "r", "a", "i", "l", " ", "b", "l", "a", "z", "e", "r", "s">>,
        <<"P", "O", "R">>>>,
      <<<<"s", "a", "c", "r", "a", "m", "e", "n", "t", "o", " ", "k", "i", "n", "g", "s">>,
        <<"S", "A", "C">>>>,
      <<<<"s", "a", "n", " ", "a", "n", "t", "o", "n", "i", "o", " ", "s", "p", "u", "r", "s">>,
        <<"S", "A", "S">>>>,
      <<<<"t", "o", "r", "o", "n", "t", "o", " ", "r", "a", "p", "t", "o", "r", "s">>,
        <<"T", "O", "R">>>>,
      <<<<"u", "t", "a", "h", " ", "j", "a", "z", "z">>,
        <<"U", "T", "A">>>>,
      <<<<"w", "a", "s", "h", "i", "n", "g", "t", "o", "n", " ", "w", "i", "z", "a", "r", "d", "s">>,
        <<"W", "A", "S">>>>
    >>

TableHas(key) == \E i \in 1..Len(TEAM_NAME_TO_ABBR) : TEAM_NAME_TO_ABBR[i][1] = key

\* dict.get(key): the abbreviation, or None
TableGet(key) ==
    IF TableHas(key)
    THEN TEAM_NAME_TO_ABBR[CHOOSE i \in 1..Len(TEAM_NAME_TO_ABBR) : TEAM_NAME_TO_ABBR[i][1] = key][2]
    ELSE NA

\* team_to_abbr(team_str); None is the missing cell NA
\* norm_team of predict_today_points_prop.py
norm_team(s0) ==
    Join(Split(Replace(Strip(Lower(AsStr(s0))), <<".">>, <<>>)))

team_to_abbr(team_str) ==
    IF team_str = NA THEN NA
    ELSE LET t == Strip(team_str)
         IN  IF Len(t) <= 4 /\ IsAlpha(t) THEN Upper(t)
             ELSE TableGet(Strip(Lower(t)))

-----------------------------------------------------------------------------
(* The raw log.  One tracked team (TEAM_ID 1, LAL) plays game g against    *)
(* TEAM_ID 2 (BOS) when g is odd and against TEAM_ID 3 (MIA) when g is     *)
(* even.  Its player 1 plays every game, its bench player 2 the first      *)
(* BenchGames games; each opponent fields one player (10 + TEAM_ID).       *)
(* A game has one of two profiles, which fixes the box score, the venue    *)
(* and the days since the previous game.                                   *)

Profiles == {"hi", "lo"}

\* the log files the model starts from: <<order of the file, MATCHUP notation>>
Sources == {<<"asc", "nba">>, <<"desc", "nba">>, <<"asc", "dash">>, <<"asc", "missing">>}

TeamAbbr(t) == CASE t = 1 -> LAL [] t = 2 -> BOS [] OTHER -> MIA

OppTeam(g) == IF g % 2 = 1 THEN 2 ELSE 3

Gap(pr) == IF pr = "hi" THEN 1 ELSE 2

\* MATCHUP as the source with notation f writes it, for team t against o
Matchup(f, t, o, home) ==
    CASE f = "nba"  -> TeamAbbr(t) \o (IF home THEN S_vs ELSE S_at) \o TeamAbbr(o)
      [] f = "dash" -> TeamAbbr(t) \o S_dash \o TeamAbbr(o)
      [] OTHER      -> NA

Stat(min, pts, ast) == [MIN |-> R(min), PTS |-> R(pts), AST |-> R(ast)]

\* box score of player p in a game of profile pr
BoxScore(p, pr) ==
    CASE p = 1 -> (IF pr = "hi" THEN Stat(30, 20, 6) ELSE Stat(10, 5, 1))
      [] p = 2 -> (IF pr = "hi" THEN Stat(6, 2, 0) ELSE Stat(12, 7, 2))
      [] OTHER -> (IF pr = "hi" THEN Stat(20, 12, 3) ELSE Stat(25, 18, 4))

Row(g, t, p, d, st, m) ==
    [GAME_ID |-> g, TEAM_ID |-> t, PLAYER_ID |-> p, GAME_DATE |-> d,
     MIN |-> st.MIN, PTS |-> st.PTS, AST |-> st.AST, MATCHUP |-> m]

RECURSIVE MaxOf(_, _)
MaxOf(rows, f) ==
    IF rows = <<>> THEN 0
    ELSE LET m == MaxOf(Tail(rows), f)
         IN  IF Head(rows)[f] > m THEN Head(rows)[f] ELSE m

NumGames(l) == MaxOf(l, "GAME_ID")

\* the rows a game of profile pr adds to log l
GameRows(l, f, pr) ==
    LET g    == NumGames(l) + 1
        d    == MaxOf(l, "GAME_DATE") + Gap(pr)
        o    == OppTeam(g)
        home == pr = "hi"
    IN  <<Row(g, 1, 1, d, BoxScore(1, pr), Matchup(f, 1, o, home))>>
        \o (IF g <= BenchGames
            THEN <<Row(g, 1, 2, d, BoxScore(2, pr), Matchup(f, 1, o, home))>>
            ELSE <<>>)
        \o <<Row(g, o, 10 + o, d, BoxScore(10 + o, pr), Matchup(f, o, 1, ~home))>>

\* the file lists games oldest first ("asc") or newest first ("desc")
AddGame(l, ord, f, pr) ==
    IF ord = "asc" THEN l \o GameRows(l, f, pr) ELSE GameRows(l, f, pr) \o l

\* a season so far of n games, profiles alternating
RECURSIVE History(_, _, _)
History(n, ord, f) ==
    IF n = 0 THEN <<>>
    ELSE AddGame(History(n - 1, ord, f), ord, f, IF n % 2 = 1 THEN "hi" ELSE "lo")

-----------------------------------------------------------------------------
(* DataFrame operations *)

\* rows with x placed after every row whose key f is <= x's (stable)
RECURSIVE InsertByKey(_, _, _)
InsertByKey(sorted, x, f) ==
    IF sorted = <<>> THEN <<x>>
    ELSE LET n == Len(sorted)
         IN  IF sorted[n][f] <= x[f] THEN Append(sorted, x)
             ELSE Append(InsertByKey(SubSeq(sorted, 1, n - 1), x, f), sorted[n])

\* a stable sort of rows by the one column f
RECURSIVE SortByColumn(_, _)
SortByColumn(rows, f) ==
    IF rows = <<>> THEN <<>>
    ELSE LET n == Len(rows)
         IN  InsertByKey(SortByColumn(SubSeq(rows, 1, n - 1), f), rows[n], f)

\* DataFrame.sort_values(cols): lexicographic, stable
RECURSIVE SortValues(_, _)
SortValues(rows, cols) ==
    IF cols = <<>> THEN rows
    ELSE SortByColumn(SortValues(rows, Tail(cols)), Head(cols))

KeysOf(rows, f) == {rows[i][f] : i \in 1..Len(rows)}

\* the group of key k of DataFrame.groupby(f), rows in frame order
Group(rows, f, k) == SelectSeq(rows, LAMBDA r : r[f] = k)

RECURSIVE SeqOfSet(_)
SeqOfSet(keys) ==
    IF keys = {} THEN <<>>
    ELSE LET k == CHOOSE x \in keys : \A y \in keys : x <= y
         IN  <<k>> \o SeqOfSet(keys \ {k})

\* DataFrame.groupby(f): the groups, keys ascending
GroupBy(rows, f) ==
    LET ks == SeqOfSet(KeysOf(rows, f))
    IN  [i \in 1..Len(ks) |-> Group(rows, f, ks[i])]

\* pd.concat(frames, ignore_index=True)
RECURSIVE Concat(_)
Concat(frames) == IF frames = <<>> THEN <<>> ELSE Head(frames) \o Concat(Tail(frames))

-----------------------------------------------------------------------------
(* build_points_features.py *)

ROLLING_WINDOWS == <<5, 10>>

\* rest days with 0 on the first row
RestDaysZeroFirst(pdf) ==
    [i \in 1..Len(pdf) |-> IF i = 1 THEN R(0) ELSE R(pdf[i].GAME_DATE - pdf[i - 1].GAME_DATE)]

\* (GAME_DATE - GAME_DATE.shift(1)).dt.days of one player's rows
RestDays(pdf) ==
    [i \in 1..Len(pdf) |-> IF i = 1 THEN NaN ELSE R(pdf[i].GAME_DATE - pdf[i - 1].GAME_DATE)]

\* MATCHUP.str.contains(" vs. ").astype(int); a missing cell makes astype raise
IsHomePoints(m) == IF m = NA THEN "raise" ELSE IF Contains(m, S_vs) THEN 1 ELSE 0

\* ratio of the trailing sums of two columns over the last 10 rows
PerMinLast10MeanOfRatios(num, min) == RollingMean(Shift1(ColDiv(num, min)), 10)

PerMinLast10(num, min) == ColDiv(RollingSum(Shift1(num), 10), RollingSum(Shift1(min), 10))

\* the body of the per-player loop: one player's rows with the feature columns
PointsPlayerFrame(pdf0) ==
    LET pdf == SortValues(pdf0, <<"GAME_DATE">>)
        MINc == Column(pdf, "MIN")
        PTSc == Column(pdf, "PTS")
        min5 == RollingMean(Shift1(MINc), ROLLING_WINDOWS[1])
        min10 == RollingMean(Shift1(MINc), ROLLING_WINDOWS[2])
        pts5 == RollingMean(Shift1(PTSc), ROLLING_WINDOWS[1])
        pts10 == RollingMean(Shift1(PTSc), ROLLING_WINDOWS[2])
        ppm == PerMinLast10(PTSc, MINc)
        std == RollingStd(Shift1(PTSc), 10)
        rest == RestDays(pdf)
    IN  [i \in 1..Len(pdf) |->
            [GAME_ID |-> pdf[i].GAME_ID, TEAM_ID |-> pdf[i].TEAM_ID,
             PLAYER_ID |-> pdf[i].PLAYER_ID, GAME_DATE |-> pdf[i].GAME_DATE,
             PTS |-> pdf[i].PTS,
             min_last5 |-> min5[i], min_last10 |-> min10[i],
             pts_last5 |-> pts5[i], pts_last10 |-> pts10[i],
             pts_per_min_last10 |-> ppm[i], pts_std_last10 |-> std[i],
             rest_days |-> rest[i], is_home |-> IsHomePoints(pdf[i].MATCHUP)]]

\* df_feat: the concatenated player frames, before dropna
PointsFeatureFrame(df0) ==
    LET df == SortValues(df0, <<"PLAYER_ID", "GAME_DATE">>)
        groups == GroupBy(df, "PLAYER_ID")
    IN  Concat([g \in 1..Len(groups) |-> PointsPlayerFrame(groups[g])])

PointsRequired ==
    {"min_last5", "min_last10", "pts_last5", "pts_last10",
     "pts_per_min_last10", "pts_std_last10", "rest_days"}

\* DataFrame.dropna(subset=cols)
DropNaKeepAll(rows, cols) == rows

DropNa(rows, cols) == SelectSeq(rows, LAMBDA r : \A c \in cols : ~IsNaN(r[c]))

WithDelta(r) ==
    [GAME_ID |-> r.GAME_ID, TEAM_ID |-> r.TEAM_ID, PLAYER_ID |-> r.PLAYER_ID,
     GAME_DATE |-> r.GAME_DATE,
     min_last5 |-> r.min_last5, min_last10 |-> r.min_last10,
     pts_last5 |-> r.pts_last5, pts_last10 |-> r.pts_last10,
     pts_per_min_last10 |-> r.pts_per_min_last10, pts_std_last10 |-> r.pts_std_last10,
     rest_days |-> r.rest_days, is_home |-> r.is_home,
     delta_pts |-> Sub(r.PTS, r.pts_last10)]

NoFrame == [status |-> "none", rows |-> <<>>]

\* no helper has been called yet
Pending == [status |-> "pending", value |-> <<>>]

Returned(v) == [status |-> "done", value |-> v]

\* run_today_pipeline has not been started
NotStarted == [pc |-> "idle", missing |-> {}, checked |-> 0, started |-> <<>>, codes |-> <<>>]

\* build_features(df): "raised" when pd.concat gets no player frame (an empty
\* log) and when astype(int) meets a missing MATCHUP
build_features(df) ==
    LET feat == PointsFeatureFrame(df)
        kept == DropNa(feat, PointsRequired)
    IN  IF df = <<>> \/ \E i \in 1..Len(df) : df[i].MATCHUP = NA
        THEN [status |-> "raised", rows |-> <<>>]
        ELSE [status |-> "ok", rows |-> [i \in 1..Len(kept) |-> WithDelta(kept[i])]]

-----------------------------------------------------------------------------
(* predict_today_assists_props_regression.py: build_latest_player_features *)

\* the PLAYER_NAME column; the log names a player the same way in every row
PLAYER_NAME(p) ==
    CASE p = 1  -> <<"L", "e", "B", "r", "o", "n", " ", "J", "a", "m", "e", "s">>
      [] p = 2  -> <<"J", "a", "d", "e", "n", " ", "I", "v", "e", "y">>
      [] p = 12 -> <<"J", "a", "y", "s", "o", "n", " ", "T", "a", "t", "u", "m">>
      [] OTHER  -> <<"B", "a", "m", " ", "A", "d", "e", "b", "a", "y", "o">>

\* MATCHUP.astype(str).str.contains(" vs. ").astype(int)
IsHomeAssists(m) == IF Contains(AsStr(m), S_vs) THEN 1 ELSE 0

\* c >= x of a numeric cell; a comparison with NaN is False
CellGE(c, x) == c[2] > 0 /\ c[1] >= x * c[2]

\* row i of one player's date-sorted rows with the feature columns of the
\* minutes and assists models (the body of the per-player loop)
AssistsFeatureRow(pdf, i) ==
    LET MINc == Column(pdf, "MIN")
        PTSc == Column(pdf, "PTS")
        ASTc == Column(pdf, "AST")
        rest == RestDays(pdf)[i]
    IN  [PLAYER_ID |-> pdf[i].PLAYER_ID,
         player_norm |-> norm_name(PLAYER_NAME(pdf[i].PLAYER_ID)),
         min_last5 |-> RollingMean(Shift1(MINc), 5)[i],
         min_last10 |-> RollingMean(Shift1(MINc), 10)[i],
         min_std_last10 |-> RollingStd(Shift1(MINc), 10)[i],
         pts_last10 |-> RollingMean(Shift1(PTSc), 10)[i],
         ast_last10 |-> RollingMean(Shift1(ASTc), 10)[i],
         ast_per_min_last10 |-> PerMinLast10(ASTc, MINc)[i],
         ast_std_last10 |-> RollingStd(Shift1(ASTc), 10)[i],
         rest_days |-> rest,
         is_b2b |-> IF rest = R(1) THEN 1 ELSE 0,
         is_home |-> IsHomeAssists(pdf[i].MATCHUP),
         is_starter |-> IF CellGE(pdf[i].MIN, 24) THEN 1 ELSE 0]

\* pdf.iloc[-1:] of the player's frame
LatestRow(pdf0) ==
    LET pdf == SortValues(pdf0, <<"GAME_DATE">>)
    IN  IF pdf = <<>> THEN <<>> ELSE <<AssistsFeatureRow(pdf, Len(pdf))>>

\* DataFrame.drop_duplicates(subset=[f], keep="last")
DropDuplicatesLast(rows, f) ==
    LET keepIdx(i) == \A j \in (i + 1)..Len(rows) : rows[j][f] # rows[i][f]
        RECURSIVE Pick(_)
        Pick(i) == IF i > Len(rows) THEN <<>>
                   ELSE (IF keepIdx(i) THEN <<rows[i]>> ELSE <<>>) \o Pick(i + 1)
    IN  Pick(1)

\* build_latest_player_features(nba): "raised" when pd.concat gets no row
build_latest_player_features(nba0) ==
    LET nba == SortValues(nba0, <<"PLAYER_ID", "GAME_DATE">>)
        groups == GroupBy(nba, "PLAYER_ID")
        f == Concat([g \in 1..Len(groups) |-> LatestRow(groups[g])])
    IN  IF nba0 = <<>> THEN [status |-> "raised", rows |-> <<>>]
        ELSE [status |-> "ok", rows |-> DropDuplicatesLast(f, "player_norm")]

-----------------------------------------------------------------------------
(* add_opponent_context.py: team defense *)

\* groupby([GAME_ID, TEAM_ID, ...]).agg(team_pts=("PTS", "sum")), keys ascending
TeamGame(df) ==
    LET gids == SeqOfSet(KeysOf(df, "GAME_ID"))
        OfGame(g) ==
            LET rows == Group(df, "GAME_ID", g)
                tids == SeqOfSet(KeysOf(rows, "TEAM_ID"))
            IN  [k \in 1..Len(tids) |->
                    LET trows == Group(rows, "TEAM_ID", tids[k])
                    IN  [GAME_ID |-> g, TEAM_ID |-> tids[k],
                         GAME_DATE |-> trows[1].GAME_DATE,
                         team_pts |-> SumRange(Column(trows, "PTS"), 1, Len(trows))]]
    IN  Concat([i \in 1..Len(gids) |-> OfGame(gids[i])])

\* team_game.merge(opp, on=[GAME_ID, GAME_DATE], how="inner"), TEAM_ID != OPP_TEAM_ID
TeamWithOpp(tg) ==
    LET Pairs(i) ==
            LET m == SelectSeq(tg, LAMBDA o : /\ o.GAME_ID = tg[i].GAME_ID
                                              /\ o.GAME_DATE = tg[i].GAME_DATE
                                              /\ o.TEAM_ID # tg[i].TEAM_ID)
            IN  [k \in 1..Len(m) |->
                    [GAME_ID |-> tg[i].GAME_ID, TEAM_ID |-> tg[i].TEAM_ID,
                     GAME_DATE |-> tg[i].GAME_DATE, OPP_TEAM_ID |-> m[k].TEAM_ID,
                     opp_pts |-> m[k].team_pts]]
    IN  Concat([i \in 1..Len(tg) |-> Pairs(i)])

\* the rolling mean of the rows a frame hands over; the source takes it over
\* the whole frame sorted by [TEAM_ID, GAME_DATE]
AllowedLast10(frame) == RollingMean(Shift1(Column(frame, "opp_pts")), 10)

\* team_def of add_opponent_context.main
TeamDefense(df) ==
    LET two == SortValues(TeamWithOpp(TeamGame(df)), <<"TEAM_ID", "GAME_DATE">>)
        allowed == AllowedLast10(two)
    IN  [status |-> "ok",
         rows |-> [i \in 1..Len(two) |->
                     [GAME_ID |-> two[i].GAME_ID, TEAM_ID |-> two[i].TEAM_ID,
                      opp_pts_allowed_last10 |-> allowed[i]]]]

\* train.merge(team_def, left_on=[GAME_ID, OPP_TEAM_ID], right_on=[GAME_ID, TEAM_ID],
\* how="left") and the dropna of the rows without opponent history
WithOpponentContext(rows, def) ==
    LET Joined(r) ==
            LET m == SelectSeq(def, LAMBDA t : /\ t.GAME_ID = r.GAME_ID
                                               /\ t.TEAM_ID = r.OPP_TEAM_ID)
            IN  IF m = <<>> THEN <<r @@ ("opp_pts_allowed_last10" :> NaN)>>
                ELSE [k \in 1..Len(m) |->
                         r @@ ("opp_pts_allowed_last10" :> m[k].opp_pts_allowed_last10)]
    IN  DropNa(Concat([i \in 1..Len(rows) |-> Joined(rows[i])]),
               {"opp_pts_allowed_last10"})

-----------------------------------------------------------------------------
(* add_opp_team_id.py *)

\* raw[[GAME_ID, TEAM_ID]].drop_duplicates(): the first row of every pair
GameTeams(raw) ==
    LET first(i) == \A j \in 1..(i - 1) :
                        raw[j].GAME_ID # raw[i].GAME_ID \/ raw[j].TEAM_ID # raw[i].TEAM_ID
        RECURSIVE Pick(_)
        Pick(i) == IF i > Len(raw) THEN <<>>
                   ELSE (IF first(i)
                         THEN <<[GAME_ID |-> raw[i].GAME_ID, TEAM_ID |-> raw[i].TEAM_ID]>>
                         ELSE <<>>) \o Pick(i + 1)
    IN  Pick(1)

\* groupby(GAME_ID)[TEAM_ID].transform(reversed): row k of a game gets the
\* TEAM_ID of the game's row counted k from the end
OppMapping(raw) ==
    LET gt == GameTeams(raw)
        Opp(i) ==
            LET g == Group(gt, "GAME_ID", gt[i].GAME_ID)
                k == Cardinality({j \in 1..i : gt[j].GAME_ID = gt[i].GAME_ID})
            IN  g[Len(g) - k + 1].TEAM_ID
    IN  [i \in 1..Len(gt) |->
            [GAME_ID |-> gt[i].GAME_ID, TEAM_ID |-> gt[i].TEAM_ID, OPP_TEAM_ID |-> Opp(i)]]

\* proc.merge(mapping, on=[GAME_ID, TEAM_ID], how="left"); a row without a
\* mapping has a missing OPP_TEAM_ID and is dropped
WithOppTeamId(proc, raw) ==
    LET mapping == OppMapping(raw)
        Joined(r) ==
            LET m == SelectSeq(mapping, LAMBDA t : /\ t.GAME_ID = r.GAME_ID
                                                   /\ t.TEAM_ID = r.TEAM_ID)
            IN  [k \in 1..Len(m) |-> r @@ ("OPP_TEAM_ID" :> m[k].OPP_TEAM_ID)]
    IN  Concat([i \in 1..Len(proc) |-> Joined(proc[i])])

-----------------------------------------------------------------------------
(* predict_today_assists_props_regression.py: from the quotes to pred_df *)

S_fanduel == <<"f", "a", "n", "d", "u", "e", "l">>
S_bet365 == <<"b", "e", "t", "3", "6", "5">>

BOOK_PRIORITY == <<S_fanduel, S_bet365>>

american_to_implied_zero(odds) ==
    IF IsNaN(odds) THEN R(0)
    ELSE IF odds[1] > 0 THEN Div(R(100), Add(odds, R(100)))
    ELSE LET neg == Sub(R(0), odds) IN Div(neg, Add(neg, R(100)))

american_to_implied(odds) ==
    IF IsNaN(odds) THEN NaN
    ELSE IF odds[1] > 0 THEN Div(R(100), Add(odds, R(100)))
    ELSE LET neg == Sub(R(0), odds) IN Div(neg, Add(neg, R(100)))

\* the characters of the model's strings in code point order
CodePoints ==
    <<"\t", " ", "'", "-", ".", "@">> \o UpperChars \o LowerChars

Code(c) == CHOOSE i \in 1..Len(CodePoints) : CodePoints[i] = c

\* a < b and a <= b of two strings
RECURSIVE StrLess(_, _)
StrLess(a, b) ==
    IF b = <<>> THEN FALSE
    ELSE IF a = <<>> THEN TRUE
    ELSE IF Head(a) = Head(b) THEN StrLess(Tail(a), Tail(b))
    ELSE Code(Head(a)) < Code(Head(b))

CellLess(a, b) == a[1] * b[2] < b[1] * a[2]

\* the order of props.sort_values([commence_time, event_id, player, line, book_rank])
PropsBefore(a, b) ==
    IF a.commence_date # b.commence_date THEN a.commence_date < b.commence_date
    ELSE IF a.event_id # b.event_id THEN a.event_id < b.event_id
    ELSE IF a.player # b.player THEN StrLess(a.player, b.player)
    ELSE IF a.line # b.line THEN CellLess(a.line, b.line)
    ELSE a.book_rank < b.book_rank

SortProps(rows) ==
    LET RECURSIVE Ins(_, _)
        Ins(sorted, x) ==
            IF sorted = <<>> THEN <<x>>
            ELSE LET n == Len(sorted)
                 IN  IF ~PropsBefore(x, sorted[n]) THEN Append(sorted, x)
                     ELSE Append(Ins(SubSeq(sorted, 1, n - 1), x), sorted[n])
        RECURSIVE Srt(_)
        Srt(r) == IF r = <<>> THEN <<>>
                  ELSE Ins(Srt(SubSeq(r, 1, Len(r) - 1)), r[Len(r)])
    IN  Srt(rows)

\* a dedupe that keeps the last row of every quote
DropDuplicateQuotesLast(rows) ==
    LET same(a, b) == a.event_id = b.event_id /\ a.player = b.player /\ a.line = b.line
        last == SelectSeq([i \in 1..Len(rows) |->
                              [row |-> rows[i],
                               dup |-> \E j \in (i + 1)..Len(rows) : same(rows[j], rows[i])]],
                          LAMBDA x : ~x.dup)
    IN  [i \in 1..Len(last) |-> last[i].row]

\* drop_duplicates(subset=[event_id, player, line], keep="first")
DropDuplicateQuotes(rows) ==
    LET same(a, b) == a.event_id = b.event_id /\ a.player = b.player /\ a.line = b.line
        first == SelectSeq([i \in 1..Len(rows) |->
                               [row |-> rows[i],
                                dup |-> \E j \in 1..(i - 1) : same(rows[j], rows[i])]],
                           LAMBDA x : ~x.dup)
    IN  [i \in 1..Len(first) |-> first[i].row]

\* the quotes of today from the books of BOOK_PRIORITY, the best book per quote
BestBookProps(props0) ==
    LET today == SelectSeq(props0, LAMBDA q : q.commence_date = 0)
        keyed == [i \in 1..Len(today) |->
                    [today[i] EXCEPT !.book_key = Strip(Lower(AsStr(today[i].book_key)))]]
        inBooks == SelectSeq(keyed, LAMBDA q :
                       \E k \in 1..Len(BOOK_PRIORITY) : BOOK_PRIORITY[k] = q.book_key)
        ranked == [i \in 1..Len(inBooks) |->
                     inBooks[i] @@ ("book_rank" :>
                         (CHOOSE k \in 1..Len(BOOK_PRIORITY) :
                              BOOK_PRIORITY[k] = inBooks[i].book_key) - 1)]
    IN  DropDuplicateQuotes(SortProps(ranked))

\* the roster with player_norm and the upper-cased, stripped TEAM_ABBREVIATION
TeamMapRows(tm) ==
    [i \in 1..Len(tm) |->
        [player_norm |-> norm_name(tm[i].PLAYER_NAME),
         TEAM_ABBREVIATION |-> Strip(Upper(AsStr(tm[i].TEAM_ABBREVIATION)))]]

infer_opp_abbr_guess(pt, ha, aa) ==
    IF pt = NA THEN NA ELSE IF pt = ha THEN aa ELSE ha

infer_opp_abbr(pt, ha, aa) ==
    IF pt = NA THEN NA
    ELSE IF pt = ha THEN aa
    ELSE IF pt = aa THEN ha
    ELSE NA

\* the feature columns a quote gets from player_feats; a flag column joins as a float
FeatureCells(f) ==
    [PLAYER_ID |-> R(f.PLAYER_ID),
     min_last5 |-> f.min_last5, min_last10 |-> f.min_last10,
     min_std_last10 |-> f.min_std_last10, pts_last10 |-> f.pts_last10,
     ast_last10 |-> f.ast_last10, ast_per_min_last10 |-> f.ast_per_min_last10,
     ast_std_last10 |-> f.ast_std_last10, rest_days |-> f.rest_days,
     is_b2b |-> R(f.is_b2b), is_home |-> R(f.is_home), is_starter |-> R(f.is_starter)]

NoFeatureCells ==
    [PLAYER_ID |-> NaN,
     min_last5 |-> NaN, min_last10 |-> NaN, min_std_last10 |-> NaN, pts_last10 |-> NaN,
     ast_last10 |-> NaN, ast_per_min_last10 |-> NaN, ast_std_last10 |-> NaN,
     rest_days |-> NaN, is_b2b |-> NaN, is_home |-> NaN, is_starter |-> NaN]

\* df of main after the two left merges and the implied probabilities
Candidates(props0, tm0, feats) ==
    LET best == BestBookProps(props0)
        tm == TeamMapRows(tm0)
        WithTeam(q) ==
            LET pn == norm_name(q.player)
                ha == team_to_abbr(q.home_team)
                aa == team_to_abbr(q.away_team)
                m == SelectSeq(tm, LAMBDA t : t.player_norm = pn)
                teams == IF m = <<>> THEN <<NA>>
                         ELSE [k \in 1..Len(m) |-> m[k].TEAM_ABBREVIATION]
            IN  [k \in 1..Len(teams) |->
                    [event_id |-> q.event_id, player |-> q.player, player_norm |-> pn,
                     line |-> q.line, odds_over |-> q.odds_over,
                     odds_under |-> q.odds_under,
                     home_abbr |-> ha, away_abbr |-> aa,
                     player_team_abbr |-> teams[k],
                     opp_team_abbr |-> infer_opp_abbr(teams[k], ha, aa),
                     p_over_implied |-> american_to_implied(q.odds_over),
                     p_under_implied |-> american_to_implied(q.odds_under)]]
        WithFeats(r) ==
            LET m == SelectSeq(feats, LAMBDA f : f.player_norm = r.player_norm)
            IN  IF m = <<>> THEN <<r @@ NoFeatureCells>>
                ELSE [k \in 1..Len(m) |-> r @@ FeatureCells(m[k])]
        df1 == Concat([i \in 1..Len(best) |-> WithTeam(best[i])])
    IN  Concat([i \in 1..Len(df1) |-> WithFeats(df1[i])])

\* REQUIRED of main: the float columns and the text columns
RequiredCells ==
    {"min_last5", "min_last10", "min_std_last10", "pts_last10",
     "rest_days", "is_b2b", "is_home", "is_starter",
     "ast_per_min_last10", "ast_std_last10",
     "line", "p_over_implied", "p_under_implied"}

RequiredText == {"player_team_abbr", "opp_team_abbr", "home_abbr", "away_abbr"}

\* DataFrame.dropna(subset=cols) over text columns
DropNaText(rows, cols) == SelectSeq(rows, LAMBDA r : \A c \in cols : r[c] # NA)

\* main up to pred_df: "raised" when no quote of today or of a priority book is
\* left, "empty" when main returns because no row has every REQUIRED column
ResolvedCandidates(nba, props0, tm0) ==
    LET feats == build_latest_player_features(nba)
        df == Candidates(props0, tm0, feats.rows)
        kept == DropNa(DropNaText(df, RequiredText), RequiredCells)
    IN  IF BestBookProps(props0) = <<>> \/ feats.status = "raised"
        THEN [status |-> "raised", rows |-> <<>>]
        ELSE IF kept = <<>> THEN [status |-> "empty", rows |-> <<>>]
        ELSE [status |-> "ok", rows |-> kept]

-----------------------------------------------------------------------------
(* predict_today_assists_props_regression.py: the scorer, pred_df to edges *)

\* a < b of two finite cells; a comparison with NaN is False
Less(a, b) ==
    /\ a[2] > 0
    /\ b[2] > 0
    /\ LET g == GCD(a[2], b[2]) IN a[1] * (b[2] \div g) < b[1] * (a[2] \div g)

\* the largest integer whose square is at most x
RECURSIVE Newton(_, _)
Newton(x, g) ==
    LET h == (g + x \div g) \div 2 IN IF h >= g THEN g ELSE Newton(x, h)

\* the square root of a non-negative cell, carried to three decimals
Sqrt(v) ==
    IF v[2] <= 0 \/ v[1] < 0 THEN NaN
    ELSE LET x == (v[1] * 1000000) \div v[2]
         IN  Frac(IF x = 0 THEN 0 ELSE Newton(x, x), 1000)

\* the standard normal distribution function at the quarter steps 0, 1/4, ..., 4,
\* in units of 1/10000
PhiTable ==
    <<5000, 5987, 6915, 7734, 8413, 8944, 9332, 9599, 9772,
      9878, 9938, 9970, 9987, 9994, 9998, 9999, 10000>>

\* the distribution function at n/d >= 0, in units of 1/10000: the table value
\* at a quarter step, linear between two steps, 1 from 4 on
PhiUpper(n, d) ==
    LET k == (4 * n) \div d
    IN  IF k >= 16 THEN 10000
        ELSE PhiTable[k + 1]
             + ((PhiTable[k + 2] - PhiTable[k + 1]) * (4 * n - k * d)) \div d

\* norm_cdf(x) = 0.5 * (1 + erf(x / sqrt(2))), carried to four decimals
norm_cdf_mirrored(x) ==
    IF x[2] <= 0 THEN NaN
    ELSE IF x[1] >= 0 THEN Frac(10000 - PhiUpper(x[1], x[2]), 10000)
    ELSE Frac(PhiUpper(-x[1], x[2]), 10000)

norm_cdf(x) ==
    IF x[2] <= 0 THEN NaN
    ELSE IF x[1] >= 0 THEN Frac(PhiUpper(x[1], x[2]), 10000)
    ELSE Frac(10000 - PhiUpper(-x[1], x[2]), 10000)

\* the minutes models a run may find in models/minutes_xgb.json
MinutesBoosters == {"trail", "near", "low", "high", "neg"}

\* min_booster.predict on the MIN_FEATURES of row r
Predict(b, r) ==
    CASE b = "trail" -> r.min_last10
      [] b = "near"  -> R(28)
      [] b = "low"   -> R(12)
      [] b = "high"  -> R(50)
      [] OTHER       -> R(-3)

\* np.clip(x, lo, hi)
Clip(x, lo, hi) == IF Less(x, lo) THEN lo ELSE IF Less(hi, x) THEN hi ELSE x

\* ast_std_last10.astype(float).clip(lower=1.5).fillna(2.0); the column holds
\* the square of the standard deviation
SigmaNoFloor(v) == IF IsNaN(v) THEN R(2) ELSE Sqrt(v)

Sigma(v) ==
    IF IsNaN(v) THEN R(2)
    ELSE IF Less(v, <<9, 4>>) THEN <<3, 2>>
    ELSE Sqrt(v)

\* Series.round(1) of a finite cell: to the nearest tenth, a half to the even one
Round1(c) ==
    IF c[2] <= 0 THEN c
    ELSE LET n == 10 * c[1]
             f == n \div c[2]
             r == n % c[2]
             q == IF 2 * r < c[2] THEN f
                  ELSE IF 2 * r > c[2] THEN f + 1
                  ELSE IF f % 2 = 0 THEN f ELSE f + 1
         IN  Frac(q, 10)

\* np.where(edge_over >= edge_under, "OVER", "UNDER"), the edge and the price of
\* that side, and ai_rating = (best_edge * 100).round(1)
BestSideUnderOnTie(eo, eu) == IF Less(eu, eo) THEN "OVER" ELSE "UNDER"

BestSide(eo, eu) == IF (eo[2] > 0 /\ eo = eu) \/ Less(eu, eo) THEN "OVER" ELSE "UNDER"

WithBestSide(r) ==
    LET side == BestSide(r.edge_over, r.edge_under)
        edge == IF side = "OVER" THEN r.edge_over ELSE r.edge_under
    IN  r @@ [best_side |-> side,
              best_edge |-> edge,
              best_odds |-> IF side = "OVER" THEN r.odds_over ELSE r.odds_under,
              ai_rating |-> Round1(Mul(edge, R(100)))]

\* a scoring that takes the under edge against the price of the over
ScoreRowOverPriceTwice(r, b) ==
    LET pred_minutes == Clip(Predict(b, r), R(0), R(42))
        ast_mean == Mul(pred_minutes, r.ast_per_min_last10)
        sigma == Sigma(r.ast_std_last10)
        z == Div(Sub(r.line, ast_mean), sigma)
        p_over == Sub(R(1), norm_cdf(z))
        p_under == Sub(R(1), p_over)
    IN  WithBestSide(r @@ [pred_minutes |-> pred_minutes,
                           ast_mean |-> ast_mean,
                           sigma |-> sigma,
                           p_over_model |-> p_over,
                           p_under_model |-> p_under,
                           edge_over |-> Sub(p_over, r.p_over_implied),
                           edge_under |-> Sub(p_under, r.p_over_implied)])

\* the scoring columns main adds to a row of pred_df, minutes model b
ScoreRow(r, b) ==
    LET pred_minutes == Clip(Predict(b, r), R(0), R(42))
        ast_mean == Mul(pred_minutes, r.ast_per_min_last10)
        sigma == Sigma(r.ast_std_last10)
        z == Div(Sub(r.line, ast_mean), sigma)
        p_over == Sub(R(1), norm_cdf(z))
        p_under == Sub(R(1), p_over)
    IN  WithBestSide(r @@ [pred_minutes |-> pred_minutes,
                           ast_mean |-> ast_mean,
                           sigma |-> sigma,
                           p_over_model |-> p_over,
                           p_under_model |-> p_under,
                           edge_over |-> Sub(p_over, r.p_over_implied),
                           edge_under |-> Sub(p_under, r.p_under_implied)])

\* pred_df.replace([inf, -inf], nan).dropna(subset=["ai_rating"])
DropNoRating(rows) == SelectSeq(rows, LAMBDA r : r.ai_rating[2] > 0)

\* pred_df of main with the scoring columns
Scored(rows, b) == DropNoRating([i \in 1..Len(rows) |-> ScoreRow(rows[i], b)])

-----------------------------------------------------------------------------
(* predict_today_assists_props_regression.py: the selection of the slate *)

\* every sequence that lists the members of S once
RECURSIVE Orderings(_)
Orderings(S) ==
    IF S = {} THEN {<<>>}
    ELSE UNION {{<<i>> \o t : t \in Orderings(S \ {i})} : i \in S}

\* sort_values("ai_rating", ascending=False): kind defaults to quicksort, which
\* is not stable, so rows of one ai_rating come out in an order the build picks
\* the set of the frames the call may return; rows without a value come last,
\* in their order in the frame
RECURSIVE RankingsOf(_, _, _)
RankingsOf(rows, I, f) ==
    LET some == {i \in I : rows[i][f][2] > 0}
        top == {i \in some : \A j \in some : ~Less(rows[i][f], rows[j][f])}
    IN  IF I = {} THEN {<<>>}
        ELSE IF some = {} THEN {[k \in 1..Cardinality(I) |-> rows[SeqOfSet(I)[k]]]}
        ELSE {[k \in 1..Len(o) |-> rows[o[k]]] \o rest :
                  o \in Orderings(top), rest \in RankingsOf(rows, I \ top, f)}

Rankings(rows) == RankingsOf(rows, 1..Len(rows), "ai_rating")

\* DataFrame.drop_duplicates(subset=cols, keep="first")
DropDuplicatesFirst(rows, cols) ==
    LET same(a, b) == \A c \in cols : a[c] = b[c]
        keepIdx(i) == \A j \in 1..(i - 1) : ~same(rows[j], rows[i])
        RECURSIVE Pick(_)
        Pick(i) == IF i > Len(rows) THEN <<>>
                   ELSE (IF keepIdx(i) THEN <<rows[i]>> ELSE <<>>) \o Pick(i + 1)
    IN  Pick(1)

\* DataFrame.head(n)
Head_(rows, n) == SubSeq(rows, 1, IF n < Len(rows) THEN n ELSE Len(rows))

\* one pick per player: the first row of every player of the sorted frame
OnePerPlayerAndLine(sorted) == DropDuplicatesFirst(sorted, {"player_norm", "line"})

OnePerPlayer(sorted) ==
    DropDuplicatesFirst(DropDuplicatesFirst(sorted, {"player_norm", "line"}),
                        {"player_norm"})

\* a selection that keeps every under
SlateNoUnderCap(ranked) ==
    LET unders == SelectSeq(ranked, LAMBDA r : r.best_side = "UNDER")
        overs == SelectSeq(ranked, LAMBDA r : r.best_side = "OVER")
        remaining == 11 - Len(unders)
    IN  [overs |-> Head_(overs, IF remaining > 0 THEN remaining ELSE 0),
         unders |-> unders]

\* at most 5 unders, then overs up to 11 picks in all
Slate(ranked) ==
    LET unders == Head_(SelectSeq(ranked, LAMBDA r : r.best_side = "UNDER"), 5)
        overs == SelectSeq(ranked, LAMBDA r : r.best_side = "OVER")
        remaining == 11 - Len(unders)
    IN  [overs |-> Head_(overs, IF remaining > 0 THEN remaining ELSE 0),
         unders |-> unders]

\* the slates main may write for the scored pred_df
Slates(rows) == {Slate(OnePerPlayer(sorted)) : sorted \in Rankings(rows)}

-----------------------------------------------------------------------------
(* predict_today_points_prop.py: main *)

\* the TEAM_NAME column; the log names a team the same way in every row
TEAM_NAME(t) ==
    CASE t = 1 -> <<"L", "o", "s", " ", "A", "n", "g", "e", "l", "e", "s", " ",
                    "L", "a", "k", "e", "r", "s">>
      [] t = 2 -> <<"B", "o", "s", "t", "o", "n", " ", "C", "e", "l", "t", "i", "c", "s">>
      [] OTHER -> <<"M", "i", "a", "m", "i", " ", "H", "e", "a", "t">>

\* the last row of a player's games pdf, sorted by GAME_DATE, with the trailing
\* columns of MIN and PTS
PointsLastRow(pdf, MINc, PTSc) ==
    LET i == Len(pdf)
    IN  <<[PLAYER_ID |-> R(pdf[i].PLAYER_ID),
           player_norm |-> norm_name(PLAYER_NAME(pdf[i].PLAYER_ID)),
           team_norm |-> norm_team(TEAM_NAME(pdf[i].TEAM_ID)),
           min_last5 |-> RollingMean(Shift1(MINc), 5)[i],
           min_last10 |-> RollingMean(Shift1(MINc), 10)[i],
           pts_last5 |-> RollingMean(Shift1(PTSc), 5)[i],
           pts_last10 |-> RollingMean(Shift1(PTSc), 10)[i],
           pts_per_min_last10 |-> PerMinLast10(PTSc, MINc)[i],
           pts_std_last10 |-> RollingStd(Shift1(PTSc), 10)[i],
           rest_days |-> RestDays(pdf)[i],
           is_home |-> R(IsHomeAssists(pdf[i].MATCHUP))]>>

PointsLast(pdf) == PointsLastRow(pdf, Column(pdf, "MIN"), Column(pdf, "PTS"))

\* the per-player loop over the groups of PLAYER_ID
PointsLatestOf(groups) ==
    Concat([g \in 1..Len(groups) |-> PointsLast(SortValues(groups[g], <<"GAME_DATE">>))])

\* build_latest_player_features of the points script: the last row of every
\* player with the trailing columns, one row per player_norm
PointsLatestFeatures(nba0) ==
    DropDuplicatesLast(
        PointsLatestOf(GroupBy(SortValues(nba0, <<"PLAYER_ID", "GAME_DATE">>), "PLAYER_ID")),
        "player_norm")

\* groupby("TEAM_ID").tail(1) of the team games with the points they allowed
TeamDefenseTail(merged, allowed) ==
    SelectSeq([i \in 1..Len(merged) |->
                  [TEAM_ID |-> merged[i].TEAM_ID,
                   team_norm |-> norm_team(TEAM_NAME(merged[i].TEAM_ID)),
                   opp_pts_allowed_last10 |-> allowed[i],
                   last |-> \A j \in (i + 1)..Len(merged) :
                                merged[j].TEAM_ID # merged[i].TEAM_ID]],
              LAMBDA t : t.last)

TeamDefenseLatest(merged) == TeamDefenseTail(merged, AllowedLast10(merged))

\* build_latest_team_defense: the last row of every team of the frame sorted by
\* [TEAM_ID, GAME_DATE], one row per team_norm
build_latest_team_defense(nba) ==
    DropDuplicatesLast(
        TeamDefenseLatest(SortValues(TeamWithOpp(TeamGame(nba)), <<"TEAM_ID", "GAME_DATE">>)),
        "team_norm")

get_opp_team_norm(t, home_norm, away_norm) ==
    IF t = NA THEN NA
    ELSE IF t = home_norm THEN away_norm
    ELSE IF t = away_norm THEN home_norm
    ELSE NA

\* FEATURES of the points script
PointsFEATURES ==
    {"line", "min_last5", "min_last10", "pts_last5", "pts_last10",
     "pts_per_min_last10", "pts_std_last10", "rest_days", "is_home",
     "opp_pts_allowed_last10"}

\* the classifiers a run may find in models/points_over_xgb.json, by the
\* probability of the over they predict for a row
PointsBoosters == {<<1, 10>>, <<1, 2>>, <<9, 10>>}

\* book_key lowered and stripped
KeyedBooks(props0) ==
    [i \in 1..Len(props0) |->
        [props0[i] EXCEPT !.book_key = Strip(Lower(AsStr(props0[i].book_key)))]]

\* the quotes of the books of BOOK_PRIORITY
InBooks(keyed) ==
    SelectSeq(keyed, LAMBDA q : \E k \in 1..Len(BOOK_PRIORITY) : BOOK_PRIORITY[k] = q.book_key)

BookRanked(inBooks) ==
    [i \in 1..Len(inBooks) |->
        inBooks[i] @@ ("book_rank" :>
            (CHOOSE k \in 1..Len(BOOK_PRIORITY) : BOOK_PRIORITY[k] = inBooks[i].book_key) - 1)]

\* the best book of every (event, player, line)
PointsBestBook(props0) ==
    DropDuplicateQuotes(SortProps(BookRanked(InBooks(KeyedBooks(props0)))))

\* the cells of a quote whose player has no features
PointsNoFeatureCells ==
    [PLAYER_ID |-> NaN, team_norm |-> NA,
     min_last5 |-> NaN, min_last10 |-> NaN, pts_last5 |-> NaN,
     pts_last10 |-> NaN, pts_per_min_last10 |-> NaN,
     pts_std_last10 |-> NaN, rest_days |-> NaN, is_home |-> NaN]

PointsQuoteCells(q, pn) ==
    [event_id |-> q.event_id, player |-> q.player,
     player_norm |-> pn, line |-> q.line,
     odds_over |-> q.odds_over, odds_under |-> q.odds_under,
     p_over_implied |-> q.p_over_implied,
     home_norm |-> norm_team(q.home_team),
     away_norm |-> norm_team(q.away_team)]

MergeCells(base, m, missing) ==
    IF m = <<>> THEN <<base @@ missing>> ELSE [k \in 1..Len(m) |-> base @@ m[k]]

\* the left merge of a quote with player_feats on player_norm
WithPointsFeatures(q, pn, feats) ==
    MergeCells(PointsQuoteCells(q, pn),
               SelectSeq(feats, LAMBDA f : f.player_norm = pn),
               PointsNoFeatureCells)

JoinPointsFeatures(best, feats) ==
    Concat([i \in 1..Len(best) |-> WithPointsFeatures(best[i], norm_name(best[i].player), feats)])

\* the left merge of a row with team_def on the norm of its opponent
WithPointsDefense(r, opp, team_def0) ==
    MergeCells(r @@ [opp_team_norm |-> opp],
               [k \in 1..Len(SelectSeq(team_def0, LAMBDA t : t.team_norm = opp)) |->
                   [opp_pts_allowed_last10 |->
                       SelectSeq(team_def0, LAMBDA t : t.team_norm = opp)[k]
                           .opp_pts_allowed_last10]],
               [opp_pts_allowed_last10 |-> NaN])

JoinPointsDefense(df1, team_def0) ==
    Concat([i \in 1..Len(df1) |->
               WithPointsDefense(df1[i],
                                 get_opp_team_norm(df1[i].team_norm, df1[i].home_norm,
                                                   df1[i].away_norm),
                                 team_def0)])

\* p_over_implied is computed from odds_over when the column is wholly missing
FillImplied(df2) ==
    [i \in 1..Len(df2) |->
        IF \A k \in 1..Len(df2) : IsNaN(df2[k].p_over_implied)
        THEN [df2[i] EXCEPT !.p_over_implied = american_to_implied(df2[i].odds_over)]
        ELSE df2[i]]

\* pred_df of the points main: the quotes of the priority books, the best book
\* per quote, joined to the player features and to the defense of the opponent
PointsCandidates(nba, props0) ==
    DropNa(FillImplied(JoinPointsDefense(
               JoinPointsFeatures(PointsBestBook(props0), PointsLatestFeatures(nba)),
               build_latest_team_defense(nba))),
           PointsFEATURES)

\* p_over_model and edge_over of the classifier p
PointsScored(pred, p) ==
    [i \in 1..Len(pred) |->
        pred[i] @@ [p_over_model |-> p, edge_over |-> Sub(p, pred[i].p_over_implied)]]

\* the rows sorted by edge_over, largest first
PointsRanked(scored) ==
    {[status |-> "ok", rows |-> o] : o \in RankingsOf(scored, 1..Len(scored), "edge_over")}

PointsFrames(nba, pred, p) ==
    IF nba = <<>> THEN {[status |-> "raised", rows |-> <<>>]}
    ELSE IF pred = <<>> THEN {[status |-> "empty", rows |-> <<>>]}
    ELSE PointsRanked(PointsScored(pred, p))

\* the frames main may write to today_points_prop_predictions.csv with the
\* classifier p: "raised" on an empty log, "empty" when main returns without a
\* file; the rows come sorted by edge_over, largest first
PointsPredictions(nba, props0, p) == PointsFrames(nba, PointsCandidates(nba, props0), p)

-----------------------------------------------------------------------------
(* The quotes and the rosters of a day *)

S_LukaDoncic == <<"L", "u", "k", "a", " ", "D", "o", "n", "c", "i", "c">>

S_Lakers == <<"L", "o", "s", " ", "A", "n", "g", "e", "l", "e", "s", " ", "L", "a", "k", "e", "r", "s">>
S_Celtics == <<"B", "o", "s", "t", "o", "n", " ", "C", "e", "l", "t", "i", "c", "s">>
S_Heat == <<"M", "i", "a", "m", "i", " ", "H", "e", "a", "t">>
S_LakersShort == <<"L", "a", "k", "e", "r", "s">>

\* the players the books quote: two of the log and one the log does not know
Quoted ==
    <<[player |-> PLAYER_NAME(1), line |-> <<13, 2>>,
       odds_over |-> R(-110), odds_under |-> R(-110)],
      [player |-> PLAYER_NAME(2), line |-> <<7, 2>>,
       odds_over |-> R(150), odds_under |-> R(-200)],
      [player |-> S_LukaDoncic, line |-> <<17, 2>>,
       odds_over |-> R(-120), odds_under |-> R(100)]>>

\* the games quoted: commence_date counts the days from today
Events ==
    <<[event_id |-> 1, commence_date |-> 0, home_team |-> S_Lakers, away_team |-> S_Celtics],
      [event_id |-> 2, commence_date |-> 0, home_team |-> S_Heat, away_team |-> LAL],
      [event_id |-> 3, commence_date |-> 0, home_team |-> S_Celtics, away_team |-> S_Heat],
      [event_id |-> 4, commence_date |-> 0, home_team |-> S_LakersShort, away_team |-> S_Celtics],
      [event_id |-> 5, commence_date |-> 0, home_team |-> S_Lakers, away_team |-> NA],
      [event_id |-> 6, commence_date |-> 1, home_team |-> S_Lakers, away_team |-> S_Celtics]>>

\* the quotes of game e for the players ps
PropsOf(e, ps) ==
    LET idx == SeqOfSet(ps)
    IN  [i \in 1..Len(idx) |->
            [event_id |-> Events[e].event_id, commence_date |-> Events[e].commence_date,
             home_team |-> Events[e].home_team, away_team |-> Events[e].away_team,
             player |-> Quoted[idx[i]].player, line |-> Quoted[idx[i]].line,
             odds_over |-> Quoted[idx[i]].odds_over,
             odds_under |-> Quoted[idx[i]].odds_under,
             book_key |-> S_fanduel]]

\* the lines the books post for player 1, from the main line to alternates
Lines ==
    <<[player |-> PLAYER_NAME(1), line |-> <<13, 2>>,
       odds_over |-> R(-110), odds_under |-> R(-110)],
      [player |-> PLAYER_NAME(1), line |-> <<37, 2>>,
       odds_over |-> R(-110), odds_under |-> R(-110)],
      [player |-> PLAYER_NAME(1), line |-> <<11, 2>>,
       odds_over |-> R(-200), odds_under |-> R(150)],
      [player |-> PLAYER_NAME(1), line |-> <<15, 2>>,
       odds_over |-> R(100), odds_under |-> R(-120)]>>

\* the quotes of game e for the lines ls of player 1
LinesOf(e, ls) ==
    LET idx == SeqOfSet(ls)
    IN  [i \in 1..Len(idx) |->
            [event_id |-> Events[e].event_id, commence_date |-> Events[e].commence_date,
             home_team |-> Events[e].home_team, away_team |-> Events[e].away_team,
             player |-> Lines[idx[i]].player, line |-> Lines[idx[i]].line,
             odds_over |-> Lines[idx[i]].odds_over,
             odds_under |-> Lines[idx[i]].odds_under,
             book_key |-> S_fanduel]]

\* the seasons player 1 may have had: 11 games, two days apart, of
\*   steady  30 minutes, 20 points and 20 assists a game
\*   even    26 minutes, 6 and 7 assists in turn
\*   quiet   24 minutes, no assist
\*   swing   30 minutes, 2 and 12 assists in turn
\*   split   20 minutes, 4 assists in the first five games and 7 after
Seasons == {"steady", "even", "quiet", "swing", "split"}

SeasonStat(s, g) ==
    CASE s = "steady" -> Stat(30, 20, 20)
      [] s = "even"   -> Stat(26, 10, IF g % 2 = 1 THEN 6 ELSE 7)
      [] s = "quiet"  -> Stat(24, 8, 0)
      [] s = "swing"  -> Stat(30, 15, IF g % 2 = 1 THEN 2 ELSE 12)
      [] OTHER        -> Stat(20, 9, IF g <= 5 THEN 4 ELSE 7)

RECURSIVE SeasonLog(_, _)
SeasonLog(s, n) ==
    IF n = 0 THEN <<>>
    ELSE LET o == OppTeam(n)
             home == n % 2 = 1
         IN  SeasonLog(s, n - 1)
             \o <<Row(n, 1, 1, 2 * n, SeasonStat(s, n), Matchup("nba", 1, o, home)),
                  Row(n, o, 10 + o, 2 * n, BoxScore(10 + o, "hi"),
                      Matchup("nba", o, 1, ~home))>>

\* the points quotes of the books: the second lacks the price of the over, the
\* third the price of the under (the book posted one side only)
PointsQuoted ==
    <<[player |-> PLAYER_NAME(1), line |-> <<37, 2>>,
       odds_over |-> R(-110), odds_under |-> R(-110)],
      [player |-> PLAYER_NAME(1), line |-> <<41, 2>>,
       odds_over |-> NaN, odds_under |-> R(-120)],
      [player |-> PLAYER_NAME(1), line |-> <<33, 2>>,
       odds_over |-> R(-130), odds_under |-> NaN],
      [player |-> S_LukaDoncic, line |-> <<57, 2>>,
       odds_over |-> R(-120), odds_under |-> R(100)]>>

\* the rows normalize_points_props writes for game e and the quotes qs
PointsPropsOf(e, qs) ==
    LET idx == SeqOfSet(qs)
    IN  [i \in 1..Len(idx) |->
            [event_id |-> Events[e].event_id, commence_date |-> Events[e].commence_date,
             home_team |-> Events[e].home_team, away_team |-> Events[e].away_team,
             player |-> PointsQuoted[idx[i]].player, line |-> PointsQuoted[idx[i]].line,
             odds_over |-> PointsQuoted[idx[i]].odds_over,
             odds_under |-> PointsQuoted[idx[i]].odds_under,
             p_over_implied |-> american_to_implied(PointsQuoted[idx[i]].odds_over),
             p_under_implied |-> american_to_implied(PointsQuoted[idx[i]].odds_under),
             book_key |-> S_fanduel]]

Rosters == {"current", "traded", "unlisted", "blank"}

\* the roster file: player 1 on his team, traded, not listed, or without a team
TeamMapOf(roster) ==
    (CASE roster = "current"  -> <<[PLAYER_NAME |-> PLAYER_NAME(1), TEAM_ABBREVIATION |-> LAL]>>
       [] roster = "traded"   -> <<[PLAYER_NAME |-> PLAYER_NAME(1), TEAM_ABBREVIATION |-> MIA]>>
       [] roster = "blank"    -> <<[PLAYER_NAME |-> PLAYER_NAME(1), TEAM_ABBREVIATION |-> NA]>>
       [] OTHER               -> <<>>)
    \o <<[PLAYER_NAME |-> PLAYER_NAME(2), TEAM_ABBREVIATION |-> <<" ", "l", "a", "l">>],
         [PLAYER_NAME |-> PLAYER_NAME(12), TEAM_ABBREVIATION |-> BOS],
         [PLAYER_NAME |-> PLAYER_NAME(13), TEAM_ABBREVIATION |-> MIA]>>

-----------------------------------------------------------------------------
(* The feature engine as a state machine *)

Init ==
    /\ \E src \in Sources : order = src[1] /\ fmt = src[2]
    /\ \E n \in 0..MaxHist : log = History(n, order, fmt)
    /\ fetched = 0
    /\ train = NoFrame
    /\ columns = {}
    /\ latest = NoFrame
    /\ team_def = NoFrame
    /\ props = <<>>
    /\ team_map = TeamMapOf("current")
    /\ pred_df = NoFrame
    /\ slate = Pending
    /\ points_props = <<>>
    /\ points_out = NoFrame
    /\ pipeline = NotStarted
    /\ arg = <<>>
    /\ out = Pending

\* a new game is fetched into the log; what was derived from the old log is gone
LogGame(pr) ==
    /\ fetched < MaxNew
    /\ fetched' = fetched + 1
    /\ log' = AddGame(log, order, fmt, pr)
    /\ train' = NoFrame
    /\ columns' = {}
    /\ latest' = NoFrame
    /\ team_def' = NoFrame
    /\ pred_df' = NoFrame
    /\ slate' = Pending
    /\ points_out' = NoFrame
    /\ UNCHANGED <<order, fmt, props, team_map, points_props, helperVars, pipeVars>>

\* build_points_features.main
BuildPointsFeatures ==
    /\ train = NoFrame
    /\ train' = build_features(log)
    /\ UNCHANGED <<log, order, fmt, fetched, columns, latest, team_def>>
    /\ UNCHANGED <<inferVars, helperVars, pipeVars>>

\* add_opp_team_id.main: the processed file gains OPP_TEAM_ID
AddOppTeamId ==
    /\ train.status = "ok"
    /\ columns = {}
    /\ train' = [train EXCEPT !.rows = WithOppTeamId(train.rows, log)]
    /\ columns' = {"OPP_TEAM_ID"}
    /\ UNCHANGED <<log, order, fmt, fetched, latest, team_def>>
    /\ UNCHANGED <<inferVars, helperVars, pipeVars>>

\* the feature step of predict_today_assists_props_regression.main
BuildLatestFeatures ==
    /\ latest = NoFrame
    /\ latest' = build_latest_player_features(log)
    /\ UNCHANGED <<log, order, fmt, fetched, train, columns, team_def>>
    /\ UNCHANGED <<inferVars, helperVars, pipeVars>>

\* add_opponent_context.main: the team defense table is built from the raw
\* log and merged onto the processed file
AddOpponentContext ==
    /\ train.status = "ok"
    /\ columns = {"OPP_TEAM_ID"}
    /\ team_def' = TeamDefense(log)
    /\ train' = [train EXCEPT !.rows = WithOpponentContext(train.rows, team_def'.rows)]
    /\ columns' = {"OPP_TEAM_ID", "opp_pts_allowed_last10"}
    /\ UNCHANGED <<log, order, fmt, fetched, latest>>
    /\ UNCHANGED <<inferVars, helperVars, pipeVars>>

Next ==
    \/ \E pr \in Profiles : LogGame(pr)
    \/ BuildPointsFeatures
    \/ AddOppTeamId
    \/ AddOpponentContext
    \/ BuildLatestFeatures

Spec == Init /\ [][Next]_vars

-----------------------------------------------------------------------------
(* The inference run of a day as a state machine *)

\* a season of MaxHist games in the log, the processed file not built, the
\* roster of the day fetched, no quotes yet
InitInfer ==
    /\ order = "asc"
    /\ fmt = "nba"
    /\ log = History(MaxHist, order, fmt)
    /\ fetched = 0
    /\ train = NoFrame
    /\ columns = {}
    /\ latest = NoFrame
    /\ team_def = NoFrame
    /\ props = <<>>
    /\ \E roster \in Rosters : team_map = TeamMapOf(roster)
    /\ pred_df = NoFrame
    /\ slate = Pending
    /\ points_props = <<>>
    /\ points_out = NoFrame
    /\ pipeline = NotStarted
    /\ arg = <<>>
    /\ out = Pending

\* the odds steps write the normalized quotes of game e for the players ps,
\* once a day
FetchProps(e, ps) ==
    /\ props = <<>>
    /\ ps # {}
    /\ props' = PropsOf(e, ps)
    /\ pred_df' = NoFrame
    /\ slate' = Pending
    /\ UNCHANGED <<featVars, team_map, points_props, points_out, helperVars, pipeVars>>

\* predict_today_assists_props_regression.main, from the quotes to the slate,
\* with the minutes model b; main returns before scoring when no row is left
MainAssists ==
    /\ slate = Pending /\ pred_df = NoFrame
    /\ LET res == ResolvedCandidates(log, props, team_map)
       IN  IF res.status = "ok"
           THEN \E b \in MinutesBoosters :
                    /\ pred_df' = [status |-> "ok", rows |-> Scored(res.rows, b)]
                    /\ \E s \in Slates(pred_df'.rows) : slate' = Returned(s)
           ELSE /\ pred_df' = res
                /\ slate' = Pending
    /\ UNCHANGED <<featVars, props, team_map, points_props, points_out, helperVars>>

ResolveCandidates == MainAssists /\ UNCHANGED pipeVars

NextInfer ==
    \/ \E pr \in Profiles : LogGame(pr)
    \/ BuildPointsFeatures
    \/ \E e \in 1..Len(Events) : \E ps \in SUBSET (1..Len(Quoted)) : FetchProps(e, ps)
    \/ ResolveCandidates

SpecInfer == InitInfer /\ [][NextInfer]_vars

-----------------------------------------------------------------------------
(* The assists run of a day over the seasons of one player *)

InitScore ==
    /\ order = "asc"
    /\ fmt = "nba"
    /\ \E s \in Seasons : log = SeasonLog(s, SeasonGames)
    /\ fetched = 0
    /\ train = NoFrame
    /\ columns = {}
    /\ latest = NoFrame
    /\ team_def = NoFrame
    /\ props = <<>>
    /\ team_map = TeamMapOf("current")
    /\ pred_df = NoFrame
    /\ slate = Pending
    /\ points_props = <<>>
    /\ points_out = NoFrame
    /\ pipeline = NotStarted
    /\ arg = <<>>
    /\ out = Pending

\* the odds steps write the normalized quotes of game e for the lines ls
FetchLines(e, ls) ==
    /\ props = <<>>
    /\ ls # {}
    /\ props' = LinesOf(e, ls)
    /\ pred_df' = NoFrame
    /\ slate' = Pending
    /\ UNCHANGED <<featVars, team_map, points_props, points_out, helperVars, pipeVars>>

NextScore ==
    \/ \E e \in 1..Len(Events) : \E ls \in SUBSET (1..Len(Lines)) : FetchLines(e, ls)
    \/ ResolveCandidates

SpecScore == InitScore /\ [][NextScore]_vars

-----------------------------------------------------------------------------
(* The selection of the slate over the scored candidates of a full day *)

\* Candidate i of the day's pool, as main has scored it.  Players 1 to 3 are
\* quoted at two lines (candidates 1-2, 3-4, 5-6), every later candidate is a
\* player of his own; an even candidate is better on the under.  The better
\* edge falls with i, in units of 1/10000, but for
\*   3 and 4   0.1231 and 0.1234, one player, both rated 12.3
\*   5 and 6   the higher line of the player has the larger edge
\*   7 and 9   0.0852 and 0.0854, two players, both rated 8.5
\*   8 and 10  0.0700 both, two players
\* The prices are -110 on both sides, so the two edges sum to -1/21.
PoolPlayer(i) == IF i <= 6 THEN (i + 1) \div 2 ELSE i - 3

PoolEdge(i) ==
    CASE i = 3 -> 1231 [] i = 4 -> 1234
      [] i = 5 -> 1460 [] i = 6 -> 1564
      [] i = 7 -> 852  [] i = 9 -> 854
      [] i = 8 -> 700  [] i = 10 -> 700
      [] OTHER -> 2000 - 90 * i + 7 * (i % 3)

PoolRow(i) ==
    LET best == Frac(PoolEdge(i), 10000)
        other == Sub(Sub(R(0), best), <<1, 21>>)
    IN  WithBestSide(
            [event_id |-> PoolPlayer(i),
             player_norm |-> <<"p", LowerChars[PoolPlayer(i)]>>,
             line |-> IF i <= 6 /\ i % 2 = 0 THEN <<13, 2>> ELSE <<11, 2>>,
             odds_over |-> R(-110), odds_under |-> R(-110),
             edge_over |-> IF i % 2 = 1 THEN best ELSE other,
             edge_under |-> IF i % 2 = 1 THEN other ELSE best])

\* the players of a frame in the order of their first rows
RECURSIVE PlayersOf(_)
PlayersOf(rows) ==
    IF rows = <<>> THEN <<>>
    ELSE <<Head(rows).player_norm>>
         \o PlayersOf(SelectSeq(Tail(rows), LAMBDA r : r.player_norm # Head(rows).player_norm))

\* the same candidates with the games of the day listed the other way round:
\* the players in reverse, the lines of a player as they were
OtherWay(rows) ==
    LET ps == PlayersOf(rows)
        n == Len(ps)
    IN  Concat([k \in 1..n |->
                   SelectSeq(rows, LAMBDA r : r.player_norm = ps[n + 1 - k])])

\* pred_df with the candidates a..b of the pool
PoolFrame(a, b, way) ==
    LET rows == [k \in 1..(b - a + 1) |-> PoolRow(a + k - 1)]
    IN  IF way = "asc" THEN rows ELSE OtherWay(rows)

InitSelect ==
    /\ order = "asc"
    /\ fmt = "nba"
    /\ log = <<>>
    /\ fetched = 0
    /\ train = NoFrame
    /\ columns = {}
    /\ latest = NoFrame
    /\ team_def = NoFrame
    /\ props = <<>>
    /\ team_map = <<>>
    /\ \E a \in 1..MaxPool : \E b \in a..MaxPool : \E way \in {"asc", "desc"} :
          pred_df = [status |-> "ok", rows |-> PoolFrame(a, b, way)]
    /\ slate = Pending
    /\ points_props = <<>>
    /\ points_out = NoFrame
    /\ pipeline = NotStarted
    /\ arg = <<>>
    /\ out = Pending

\* main from the scored pred_df to overs and unders
SelectSlate ==
    /\ slate = Pending
    /\ pred_df.status = "ok"
    /\ pred_df' = [pred_df EXCEPT !.rows = DropNoRating(@)]
    /\ \E s \in Slates(pred_df'.rows) : slate' = Returned(s)
    /\ UNCHANGED <<featVars, props, team_map, points_props, points_out, helperVars, pipeVars>>

SpecSelect == InitSelect /\ [][SelectSlate]_vars

-----------------------------------------------------------------------------
(* The points run of a day as a state machine *)

InitPoints ==
    /\ order = "asc"
    /\ fmt = "nba"
    /\ log = History(MaxHist, order, fmt)
    /\ fetched = 0
    /\ train = NoFrame
    /\ columns = {}
    /\ latest = NoFrame
    /\ team_def = NoFrame
    /\ props = <<>>
    /\ team_map = <<>>
    /\ pred_df = NoFrame
    /\ slate = Pending
    /\ points_props = <<>>
    /\ points_out = NoFrame
    /\ pipeline = NotStarted
    /\ arg = <<>>
    /\ out = Pending

\* the odds steps write the normalized points quotes of game e, once a day
FetchPointsProps(e, qs) ==
    /\ points_props = <<>>
    /\ qs # {}
    /\ points_props' = PointsPropsOf(e, qs)
    /\ points_out' = NoFrame
    /\ UNCHANGED <<featVars, props, team_map, pred_df, slate, helperVars, pipeVars>>

\* predict_today_points_prop.main with the classifier p
PredictPoints ==
    /\ points_out = NoFrame
    /\ \E p \in PointsBoosters :
          \E o \in PointsPredictions(log, points_props, p) : points_out' = o
    /\ UNCHANGED <<featVars, props, team_map, pred_df, slate, points_props, helperVars, pipeVars>>

NextPoints ==
    \/ \E pr \in Profiles : LogGame(pr)
    \/ \E e \in 1..Len(Events) : \E qs \in SUBSET (1..Len(PointsQuoted)) :
           FetchPointsProps(e, qs)
    \/ PredictPoints

SpecPoints == InitPoints /\ [][NextPoints]_vars

-----------------------------------------------------------------------------
(* The helper functions, each called on the arguments the pipeline may hand it *)

\* the feature engine and the inference run stand still
Idle ==
    /\ order = "asc"
    /\ fmt = "nba"
    /\ log = <<>>
    /\ fetched = 0
    /\ train = NoFrame
    /\ columns = {}
    /\ latest = NoFrame
    /\ team_def = NoFrame
    /\ props = <<>>
    /\ team_map = <<>>
    /\ pred_df = NoFrame
    /\ slate = Pending
    /\ points_props = <<>>
    /\ points_out = NoFrame
    /\ pipeline = NotStarted

\* the words a player name is written with, and the gaps between them
NameWords ==
    {<<"J", "a", "d", "e", "n">>,
     <<"I", "v", "e", "y">>,
     <<"J", "r", ".">>,
     <<"S", "r">>,
     <<"I", "I", "I">>,
     <<"I", "V">>,
     <<"O", "'", "N", "e", "a", "l">>}

\* no gap (before the first word only), one space, two spaces
NameGaps == {<<>>, <<" ">>, <<" ", " ">>}

\* words written into arg so far: one per gap of arg's text
WordsTyped(s) == Len(Split(s))

InitName == Idle /\ arg = <<>> /\ out = Pending

TypeWord(gap, word) ==
    /\ out = Pending
    /\ WordsTyped(arg) < MaxWords
    /\ gap = <<>> => arg = <<>>
    /\ arg' = arg \o gap \o word
    /\ UNCHANGED <<featVars, inferVars, out, pipeVars>>

NormName ==
    /\ out = Pending
    /\ arg # <<>>
    /\ out' = Returned(norm_name(arg))
    /\ UNCHANGED <<featVars, inferVars, arg, pipeVars>>

NextName ==
    \/ \E gap \in NameGaps : \E word \in NameWords : TypeWord(gap, word)
    \/ NormName

SpecName == InitName /\ [][NextName]_vars

\* the team names of the quotes, as a book may spell them
RawTeams ==
    {<<"L", "o", "s", " ", "A", "n", "g", "e", "l", "e", "s", " ", "L", "a", "k", "e", "r", "s">>,
     <<"L", ".", "A", ".", " ", "C", "l", "i", "p", "p", "e", "r", "s">>,
     <<"L", "A", " ", "C", "l", "i", "p", "p", "e", "r", "s">>,
     <<"B", "o", "s", "t", "o", "n", " ", "C", "e", "l", "t", "i", "c", "s">>,
     <<"M", "i", "a", "m", "i", " ", "H", "e", "a", "t">>,
     <<"S", "t", ".", " ", "L", "o", "u", "i", "s", " ", "H", "a", "w", "k", "s">>,
     <<"L", "a", "k", "e", "r", "s">>,
     <<"L", "A", "L">>,
     <<"B", "o", "s">>,
     <<"o", "k", "c">>}

Cased(s, c) == CASE c = "upper" -> Upper(s) [] c = "lower" -> Lower(s) [] OTHER -> s

Padded(s, p) ==
    (IF p \in {"lead", "both"} THEN <<" ">> ELSE <<>>) \o s
        \o (IF p \in {"trail", "both"} THEN <<" ">> ELSE <<>>)

Gapped(s, g) == IF g = 1 THEN s ELSE Replace(s, <<" ">>, <<" ", " ">>)

TeamSpellings ==
    {NA} \cup
    {Padded(Gapped(Cased(raw, c), g), p) :
        raw \in RawTeams, c \in {"asis", "upper", "lower"},
        g \in {1, 2}, p \in {"none", "lead", "trail", "both"}}

InitTeam == Idle /\ arg \in TeamSpellings /\ out = Pending

TeamToAbbr ==
    /\ out = Pending
    /\ out' = Returned(team_to_abbr(arg))
    /\ UNCHANGED <<featVars, inferVars, arg, pipeVars>>

SpecTeam == InitTeam /\ [][TeamToAbbr]_vars

\* American odds as the books quote them, and a missing price
OddsQuoted == {R(o) : o \in (-MaxOdds)..MaxOdds} \cup {NaN}

InitOdds == Idle /\ arg \in OddsQuoted /\ out = Pending

AmericanToImplied ==
    /\ out = Pending
    /\ out' = Returned(american_to_implied(arg))
    /\ UNCHANGED <<featVars, inferVars, arg, pipeVars>>

SpecOdds == InitOdds /\ [][AmericanToImplied]_vars

-----------------------------------------------------------------------------
(* Reference quantities, computed from the log without the builders *)

RowSet(rows) == {rows[i] : i \in 1..Len(rows)}

\* the events of player p dated before d
PriorEvents(l, p, d) == {r \in RowSet(l) : r.PLAYER_ID = p /\ r.GAME_DATE < d}

\* sum of column f over the k latest rows of S (dates within S distinct)
RECURSIVE SumLatest(_, _, _)
SumLatest(S, f, k) ==
    IF k = 0 THEN R(0)
    ELSE LET m == CHOOSE x \in S : \A y \in S : y.GAME_DATE <= x.GAME_DATE
         IN  Add(m[f], SumLatest(S \ {m}, f, k - 1))

\* sum of num/min over the k latest rows of S
RECURSIVE SumRatiosLatest(_, _, _, _)
SumRatiosLatest(S, num, min, k) ==
    IF k = 0 THEN R(0)
    ELSE LET m == CHOOSE x \in S : \A y \in S : y.GAME_DATE <= x.GAME_DATE
         IN  Add(Div(m[num], m[min]), SumRatiosLatest(S \ {m}, num, min, k - 1))

LogDates(l) == {l[i].GAME_DATE : i \in 1..Len(l)}

\* the log with the box score of every event dated d or later replaced
SpikeFrom(l, d) ==
    [i \in 1..Len(l) |->
        IF l[i].GAME_DATE >= d
        THEN [l[i] EXCEPT !.MIN = R(48), !.PTS = R(50), !.AST = R(15)]
        ELSE l[i]]

PointsTrailing(r) ==
    <<r.min_last5, r.min_last10, r.pts_last5, r.pts_last10,
      r.pts_per_min_last10, r.pts_std_last10>>

AssistsTrailing(r) ==
    <<r.min_last5, r.min_last10, r.min_std_last10, r.pts_last10,
      r.ast_last10, r.ast_per_min_last10, r.ast_std_last10>>

PointsCells(rows) ==
    {<<rows[i].PLAYER_ID, rows[i].GAME_ID, PointsTrailing(rows[i])>> : i \in 1..Len(rows)}

AssistsCells(rows) ==
    {<<rows[i].PLAYER_ID, AssistsTrailing(rows[i])>> : i \in 1..Len(rows)}

\* the events of player p, and the date of the last of them
EventsOf(l, p) == {r \in RowSet(l) : r.PLAYER_ID = p}

LastDate(l, p) == CHOOSE d \in LogDates(l) :
                      /\ \E r \in EventsOf(l, p) : r.GAME_DATE = d
                      /\ \A r \in EventsOf(l, p) : r.GAME_DATE <= d

-----------------------------------------------------------------------------
(* C1 *)

\* C1: no look-ahead.  For every row of the training frame and of the latest
\* rows, replacing the statistics of that row's event and of every later event
\* of the log leaves each trailing feature on the row as it was: the value at
\* a player's k-th event is a function of that player's events 1..k-1.
C1_NoLookAhead ==
    /\ train.status = "ok" =>
          \A i \in 1..Len(train.rows) :
              LET r == train.rows[i]
              IN  <<r.PLAYER_ID, r.GAME_ID, PointsTrailing(r)>>
                      \in PointsCells(build_features(SpikeFrom(log, r.GAME_DATE)).rows)
    /\ latest.status = "ok" =>
          \A i \in 1..Len(latest.rows) :
              LET r == latest.rows[i]
              IN  <<r.PLAYER_ID, AssistsTrailing(r)>>
                      \in AssistsCells(build_latest_player_features(
                              SpikeFrom(log, LastDate(log, r.PLAYER_ID))).rows)

\* a training frame with a row whose own event is replaced, where the
\* replacement does change the trailing features of a later row
C1_Witness ==
    /\ train.status = "ok"
    /\ \E i \in 1..Len(train.rows) :
          PointsCells(build_features(SpikeFrom(log, train.rows[i].GAME_DATE)).rows)
              # PointsCells(train.rows)

-----------------------------------------------------------------------------
(* C2 *)

\* the games of team t dated before d, and the points t's opponent scored in g
TeamGamesBefore(l, t, d) ==
    {r.GAME_ID : r \in {x \in RowSet(l) : x.TEAM_ID = t /\ x.GAME_DATE < d}}

GameDate(l, g) == (CHOOSE x \in RowSet(l) : x.GAME_ID = g).GAME_DATE

RECURSIVE SumOver(_, _)
SumOver(S, f) ==
    IF S = {} THEN R(0)
    ELSE LET m == CHOOSE x \in S : TRUE IN Add(m[f], SumOver(S \ {m}, f))

OppTotal(l, g, t) == SumOver({r \in RowSet(l) : r.GAME_ID = g /\ r.TEAM_ID # t}, "PTS")

\* mean of the opponent totals over the k latest games of G (game ids grow with the date)
RECURSIVE SumOppLatest(_, _, _, _)
SumOppLatest(l, t, G, k) ==
    IF k = 0 THEN R(0)
    ELSE LET g == CHOOSE x \in G : \A y \in G : y <= x
         IN  Add(OppTotal(l, g, t), SumOppLatest(l, t, G \ {g}, k - 1))

\* C2: team defense is per-team and past-only.  On the row of team T for game g,
\* opp_pts_allowed_last10 is the mean of the opponent totals of T's own 10 games
\* immediately preceding g, and is missing when T has fewer than 10 earlier games.
C2_PerTeamPastOnly ==
    team_def.status = "ok" =>
        \A i \in 1..Len(team_def.rows) :
            LET r == team_def.rows[i]
                G == TeamGamesBefore(log, r.TEAM_ID, GameDate(log, r.GAME_ID))
            IN  IF Cardinality(G) < 10
                THEN IsNaN(r.opp_pts_allowed_last10)
                ELSE r.opp_pts_allowed_last10
                         = Div(SumOppLatest(log, r.TEAM_ID, G, 10), R(10))

-----------------------------------------------------------------------------
(* C3 *)

\* C3: the latest row of a player is the state entering the next game.  For a
\* player with n >= 10 logged games the 10-game aggregates of the latest row are
\* taken over games n-9..n, the last logged game included.
C3_LatestIncludesLastGame ==
    latest.status = "ok" =>
        \A i \in 1..Len(latest.rows) :
            LET r == latest.rows[i]
                E == EventsOf(log, r.PLAYER_ID)
            IN  Cardinality(E) >= 10 =>
                    /\ r.min_last10 = Div(SumLatest(E, "MIN", 10), R(10))
                    /\ r.pts_last10 = Div(SumLatest(E, "PTS", 10), R(10))
                    /\ r.ast_last10 = Div(SumLatest(E, "AST", 10), R(10))

-----------------------------------------------------------------------------
(* C5 *)

\* C5: a per-minute rate over the last 10 is the ratio of sums.  On every row
\* of the training frame, and on every latest row whose player has 10 events
\* before the row's event, the rate equals the sum of the numerator over the
\* player's 10 preceding events divided by the sum of minutes over the same events.
C5_RatioOfSums ==
    /\ train.status = "ok" =>
          \A i \in 1..Len(train.rows) :
              LET r == train.rows[i]
                  P == PriorEvents(log, r.PLAYER_ID, r.GAME_DATE)
              IN  /\ Cardinality(P) >= 10
                  /\ r.pts_per_min_last10
                         = Div(SumLatest(P, "PTS", 10), SumLatest(P, "MIN", 10))
    /\ latest.status = "ok" =>
          \A i \in 1..Len(latest.rows) :
              LET r == latest.rows[i]
                  P == PriorEvents(log, r.PLAYER_ID, LastDate(log, r.PLAYER_ID))
              IN  IF Cardinality(P) >= 10
                  THEN r.ast_per_min_last10
                           = Div(SumLatest(P, "AST", 10), SumLatest(P, "MIN", 10))
                  ELSE IsNaN(r.ast_per_min_last10)

\* a training row whose rate differs from the mean of the 10 per-game ratios
C5_Witness ==
    /\ train.status = "ok"
    /\ \E i \in 1..Len(train.rows) :
          LET r == train.rows[i]
              P == PriorEvents(log, r.PLAYER_ID, r.GAME_DATE)
          IN  /\ ~IsNaN(r.pts_per_min_last10)
              /\ r.pts_per_min_last10 # Div(SumRatiosLatest(P, "PTS", "MIN", 10), R(10))

-----------------------------------------------------------------------------
(* C6 *)

InNotation(m) == m # NA /\ (Contains(m, S_vs) \/ Contains(m, S_at))

\* C6: the home flag fails loudly.  When the log holds a MATCHUP that is in
\* neither the "vs" nor the "@" notation (a missing value included), neither
\* feature builder returns a frame: each raises.
C6_HomeFlagRaises ==
    (\E i \in 1..Len(log) : ~InNotation(log[i].MATCHUP)) =>
        /\ train.status \in {"none", "raised"}
        /\ latest.status \in {"none", "raised"}

-----------------------------------------------------------------------------
(* C4 *)

\* C4: missing history is excluded, never fabricated.  Every row of the
\* training frame belongs to a player with at least 10 events strictly before
\* the row's event, and so does every row of pred_df, the rows that reach
\* scoring; each carries a value in every trailing feature.
C4_MissingHistoryExcluded ==
    /\ train.status = "ok" =>
          \A i \in 1..Len(train.rows) :
              LET r == train.rows[i]
              IN  /\ Cardinality(PriorEvents(log, r.PLAYER_ID, r.GAME_DATE)) >= 10
                  /\ \A c \in PointsRequired : ~IsNaN(r[c])
    /\ pred_df.status = "ok" =>
          \A i \in 1..Len(pred_df.rows) :
              LET r == pred_df.rows[i]
              IN  /\ ~IsNaN(r.PLAYER_ID)
                  /\ Cardinality(PriorEvents(log, r.PLAYER_ID[1],
                                             LastDate(log, r.PLAYER_ID[1]))) >= 10
                  /\ \A c \in RequiredCells : ~IsNaN(r[c])

\* a training frame with rows, and a scored slate from quotes that held a
\* player with fewer than 10 events
C4_Witness ==
    /\ train.status = "ok" /\ train.rows # <<>>
    /\ pred_df.status = "ok"
    /\ \E i \in 1..Len(props) :
          /\ props[i].player = PLAYER_NAME(2)
          /\ Cardinality(EventsOf(log, 2)) < 10
          /\ \A j \in 1..Len(pred_df.rows) : pred_df.rows[j].player # props[i].player

-----------------------------------------------------------------------------
(* C7 *)

\* C7: opponent resolution is fail-closed.  Every row of pred_df has a home and
\* an away abbreviation, its player's team is the team the roster lists for the
\* player and is exactly one of the two, and its opponent is the other one; a
\* quote whose player has no such team is not in pred_df.  (Roster LAL with
\* Lakers against Celtics gives BOS.)
C7_OpponentFailClosed ==
    pred_df.status = "ok" =>
        \A i \in 1..Len(pred_df.rows) :
            LET r == pred_df.rows[i]
            IN  /\ r.home_abbr # NA /\ r.away_abbr # NA /\ r.player_team_abbr # NA
                /\ (r.player_team_abbr = r.home_abbr) # (r.player_team_abbr = r.away_abbr)
                /\ r.opp_team_abbr = IF r.player_team_abbr = r.home_abbr
                                     THEN r.away_abbr ELSE r.home_abbr
                /\ \E k \in 1..Len(team_map) :
                      /\ team_map[k].PLAYER_NAME = r.player
                      /\ team_map[k].TEAM_ABBREVIATION # NA
                      /\ Strip(Upper(team_map[k].TEAM_ABBREVIATION)) = r.player_team_abbr
                /\ (r.event_id = 1 /\ r.player_team_abbr = LAL) => r.opp_team_abbr = BOS

\* Lakers against Celtics with the player on LAL resolved to BOS, next to a
\* quoted player the roster does not list
C7_Witness ==
    /\ pred_df.status = "ok"
    /\ \E i \in 1..Len(pred_df.rows) :
          /\ pred_df.rows[i].event_id = 1
          /\ pred_df.rows[i].player_team_abbr = LAL
          /\ pred_df.rows[i].opp_team_abbr = BOS
    /\ \E i \in 1..Len(props) : props[i].player = S_LukaDoncic

-----------------------------------------------------------------------------
(* C8 *)

\* a word of a name without its periods and apostrophes
Cleaned(w) == Replace(Replace(w, <<".">>, <<>>), <<"'">>, <<>>)

\* the suffix tokens as the claim lists them, and the same tokens written
\* with or without the period
SuffixWords ==
    {<<"j", "r", ".">>, <<"s", "r", ".">>, <<"i", "i">>, <<"i", "i", "i">>, <<"i", "v">>}

ListedSuffix(w) == w \in SuffixWords

SuffixLike(w) == \E t \in SuffixWords : Cleaned(w) = Cleaned(t)

\* o is the words t in order, each cleaned, where a listed suffix after the
\* first word is left out, a word spelled like a suffix may be left out, and
\* every other word is kept
RECURSIVE KeepsWords(_, _, _)
KeepsWords(o, t, first) ==
    IF t = <<>> THEN o = <<>>
    ELSE LET w == Head(t)
         IN  \/ /\ SuffixLike(w) \/ Cleaned(w) = <<>>
                /\ KeepsWords(o, Tail(t), FALSE)
             \/ /\ first \/ ~ListedSuffix(w)
                /\ Cleaned(w) # <<>>
                /\ o # <<>>
                /\ Head(o) = Cleaned(w)
                /\ KeepsWords(Tail(o), Tail(t), FALSE)

\* C8: norm_name returns the name lower-cased and trimmed, its words parted by
\* one space, periods and apostrophes removed and the suffix tokens removed; a
\* suffix goes only as a whole word, and no other character of the name goes (a
\* surname that begins with "iv" stays whole).
C8_NormNameWholeTokens ==
    out.status = "done" =>
        /\ out.value = Join(Split(out.value))
        /\ KeepsWords(Split(out.value), Split(Lower(arg)), TRUE)

-----------------------------------------------------------------------------
(* C9 *)

\* C9: team_to_abbr returns a string of four letters or fewer upper-cased (the
\* test taken on the trimmed string), and maps every other string, normalized
\* in case, surrounding whitespace, internal whitespace runs and periods,
\* through the franchise table; a string without a table entry yields no
\* abbreviation.
C9_TeamNameVariations ==
    (out.status = "done" /\ arg # NA) =>
        LET t == Strip(arg)
        IN  IF Len(t) <= 4 /\ IsAlpha(t) THEN out.value = Upper(t)
            ELSE out.value = TableGet(norm_team(arg))

-----------------------------------------------------------------------------
(* C10 *)

\* C10: american_to_implied of positive odds o is 100/(o+100), of negative odds
\* o it is |o|/(|o|+100), so +150 gives 2/5 and -200 gives 2/3; of a missing
\* price it is missing, never 0.
C10_ImpliedProbability ==
    out.status = "done" =>
        /\ IsNaN(arg) => IsNaN(out.value)
        /\ (~IsNaN(arg) /\ arg[1] > 0) => out.value = Frac(100, arg[1] + 100)
        /\ (~IsNaN(arg) /\ arg[1] < 0) => out.value = Frac(Abs(arg[1]), Abs(arg[1]) + 100)
        /\ arg = R(150) => out.value = <<2, 5>>
        /\ arg = R(-200) => out.value = <<2, 3>>

\* the three cases of the claim are converted: this one is -200
C10_Witness == out.status = "done" /\ arg = R(-200) /\ out.value = <<2, 3>>

-----------------------------------------------------------------------------
(* C11 *)

\* C11: in every inference path a candidate whose over-side or under-side
\* implied probability is missing is removed before an edge is computed: no row
\* of the assists pred_df and no row written by the points run has a quote with
\* a missing price on either side, a missing implied probability or a missing
\* edge.
C11_NoMissingImplied ==
    /\ pred_df.status = "ok" =>
          \A i \in 1..Len(pred_df.rows) :
              LET r == pred_df.rows[i]
              IN  /\ ~IsNaN(r.p_over_implied) /\ ~IsNaN(r.p_under_implied)
                  /\ ~IsNaN(r.edge_over) /\ ~IsNaN(r.edge_under)
    /\ points_out.status = "ok" =>
          \A i \in 1..Len(points_out.rows) :
              LET r == points_out.rows[i]
              IN  /\ ~IsNaN(r.p_over_implied)
                  /\ ~IsNaN(american_to_implied(r.odds_under))
                  /\ ~IsNaN(r.edge_over)

-----------------------------------------------------------------------------
(* C13 *)

\* C13: the dispersion of every scored row is a number that is at least the
\* floor 1.5, whatever the trailing standard deviation of the row is, and it is
\* the divisor of z: p_over_model is 1 - norm_cdf((line - ast_mean) / sigma).
C13_SigmaFloor ==
    pred_df.status = "ok" =>
        \A i \in 1..Len(pred_df.rows) :
            LET r == pred_df.rows[i]
            IN  /\ r.sigma[2] > 0
                /\ ~Less(r.sigma, <<3, 2>>)
                /\ r.p_over_model
                       = Sub(R(1), norm_cdf(Div(Sub(r.line, r.ast_mean), r.sigma)))

\* a scored row of the steady season: its trailing standard deviation is zero
\* and its dispersion is the floor
C13_Witness ==
    /\ pred_df.status = "ok"
    /\ \E i \in 1..Len(pred_df.rows) :
          /\ pred_df.rows[i].ast_std_last10 = R(0)
          /\ pred_df.rows[i].sigma = <<3, 2>>
    /\ log = SeasonLog("steady", SeasonGames)

-----------------------------------------------------------------------------
(* C14 *)

\* the rows of the scenario: the steady season (30 minutes and 20 of the scored
\* statistic in every game) and the quote of 18.5 at -110 on both sides
ScenarioRows ==
    IF log = SeasonLog("steady", SeasonGames) /\ pred_df.status = "ok"
    THEN {i \in 1..Len(pred_df.rows) :
              /\ pred_df.rows[i].line = <<37, 2>>
              /\ pred_df.rows[i].odds_over = R(-110)
              /\ pred_df.rows[i].odds_under = R(-110)}
    ELSE {}

\* C14 as stated: the scenario row has p_over_model > 0.5, a positive over edge,
\* a positive under edge, and the over edge exceeds the under edge.
C14_ScenarioBothEdgesPositive ==
    \A i \in ScenarioRows :
        LET r == pred_df.rows[i]
        IN  /\ Less(<<1, 2>>, r.p_over_model)
            /\ Less(R(0), r.edge_over)
            /\ Less(R(0), r.edge_under)
            /\ Less(r.edge_under, r.edge_over)

\* C14 as amended: when the minutes model predicts at least 28 minutes, the
\* scenario row has p_over_model > 0.5, a positive over edge and a negative
\* under edge (the two implied probabilities sum to more than 1), so the over
\* edge exceeds the under edge and the best side is OVER.
C14_ScenarioOverEdge ==
    \A i \in ScenarioRows :
        LET r == pred_df.rows[i]
        IN  ~Less(r.pred_minutes, R(28)) =>
                /\ Less(<<1, 2>>, r.p_over_model)
                /\ Less(R(0), r.edge_over)
                /\ Less(r.edge_under, R(0))
                /\ Less(r.edge_under, r.edge_over)
                /\ r.best_side = "OVER"

\* the scenario scored with the minutes model that predicts the trailing 30
C14_Witness ==
    \E i \in ScenarioRows :
        /\ pred_df.rows[i].pred_minutes = R(30)
        /\ pred_df.rows[i].ast_mean = R(20)
        /\ Len(pred_df.rows) = 1

-----------------------------------------------------------------------------
(* C15 *)

\* C15: on every scored row best_side is OVER exactly when edge_over is not
\* below edge_under (so OVER on a tie), best_edge is the edge of that side and
\* the larger of the two edges, and best_odds is the price of that side.
C15_BestSide ==
    pred_df.status = "ok" =>
        \A i \in 1..Len(pred_df.rows) :
            LET r == pred_df.rows[i]
            IN  /\ r.best_side \in {"OVER", "UNDER"}
                /\ r.best_side = "OVER" <=> ~Less(r.edge_over, r.edge_under)
                /\ ~Less(r.best_edge, r.edge_over)
                /\ ~Less(r.best_edge, r.edge_under)
                /\ r.best_side = "OVER" =>
                       r.best_edge = r.edge_over /\ r.best_odds = r.odds_over
                /\ r.best_side = "UNDER" =>
                       r.best_edge = r.edge_under /\ r.best_odds = r.odds_under

\* a run that scores a tie of the two edges and a row whose best side is UNDER
C15_Witness ==
    /\ pred_df.status = "ok"
    /\ \E i \in 1..Len(pred_df.rows) :
          /\ pred_df.rows[i].edge_over = pred_df.rows[i].edge_under
          /\ pred_df.rows[i].best_side = "OVER"
    /\ \E i \in 1..Len(pred_df.rows) :
          /\ pred_df.rows[i].best_side = "UNDER"
          /\ Less(pred_df.rows[i].edge_over, pred_df.rows[i].edge_under)

-----------------------------------------------------------------------------
(* C16 to C20: the slate *)

\* the picks of the slate, overs first
Picks == IF slate.status = "done" THEN slate.value.overs \o slate.value.unders ELSE <<>>

HasPick(player) == \E k \in 1..Len(Picks) : Picks[k].player_norm = player

\* C16: the slate, overs and unders together, has at most one pick per
\* normalized player name, and every pick is a scored candidate.
C16_OnePickPerPlayer ==
    /\ \A i, j \in 1..Len(Picks) : i # j => Picks[i].player_norm # Picks[j].player_norm
    /\ \A i \in 1..Len(Picks) : \E k \in 1..Len(pred_df.rows) : pred_df.rows[k] = Picks[i]

\* a slate with a pick of a player who has an over candidate and an under
\* candidate at two lines
C16_Witness ==
    /\ slate.status = "done"
    /\ \E i, j \in 1..Len(pred_df.rows) :
          /\ pred_df.rows[i].player_norm = pred_df.rows[j].player_norm
          /\ pred_df.rows[i].line # pred_df.rows[j].line
          /\ pred_df.rows[i].best_side = "OVER"
          /\ pred_df.rows[j].best_side = "UNDER"
          /\ HasPick(pred_df.rows[i].player_norm)

\* C17: the slate has at most 5 UNDER picks and at most 11 picks in all; the
\* unders are UNDER picks and the overs OVER picks.
C17_Caps ==
    slate.status = "done" =>
        /\ Len(slate.value.unders) <= 5
        /\ Len(slate.value.overs) + Len(slate.value.unders) <= 11
        /\ \A k \in 1..Len(slate.value.unders) : slate.value.unders[k].best_side = "UNDER"
        /\ \A k \in 1..Len(slate.value.overs) : slate.value.overs[k].best_side = "OVER"

\* a full slate, 5 unders and 6 overs, of a day with an under candidate and an
\* over candidate whose players got no pick
C17_Witness ==
    /\ slate.status = "done"
    /\ Len(slate.value.unders) = 5
    /\ Len(slate.value.overs) = 6
    /\ \E i, j \in 1..Len(pred_df.rows) :
          /\ pred_df.rows[i].best_side = "UNDER"
          /\ ~HasPick(pred_df.rows[i].player_norm)
          /\ pred_df.rows[j].best_side = "OVER"
          /\ ~HasPick(pred_df.rows[j].player_norm)

\* C18: the pick of a player is a candidate whose best_edge is the largest
\* best_edge of that player's candidates.
C18_KeepsHighestEdge ==
    \A k \in 1..Len(Picks) :
        \A i \in 1..Len(pred_df.rows) :
            pred_df.rows[i].player_norm = Picks[k].player_norm =>
                ~Less(Picks[k].best_edge, pred_df.rows[i].best_edge)

\* a section lists its picks by best_edge, largest first
ByEdge(section) ==
    \A k \in 1..(Len(section) - 1) : ~Less(section[k].best_edge, section[k + 1].best_edge)

\* C19: the overs and the unders are each in non-increasing order of edge, and
\* the overs are the highest-edge over candidates up to the room the unders
\* leave: an over candidate of a player without a pick has no larger edge than
\* any selected over, and is left out only when the 11 places are taken.
C19_SectionsByEdge ==
    slate.status = "done" =>
        /\ ByEdge(slate.value.overs)
        /\ ByEdge(slate.value.unders)
        /\ \A i \in 1..Len(pred_df.rows) :
              (pred_df.rows[i].best_side = "OVER" /\ ~HasPick(pred_df.rows[i].player_norm)) =>
                  /\ Len(slate.value.overs) = 11 - Len(slate.value.unders)
                  /\ \A k \in 1..Len(slate.value.overs) :
                        ~Less(slate.value.overs[k].best_edge, pred_df.rows[i].best_edge)

\* C20: the slate is a function of the set of candidates: every run over the
\* candidates of pred_df, in this row order or with the games listed the other
\* way round, writes the same overs and unders in the same order.
C20_Deterministic ==
    slate.status = "done" =>
        \A s \in Slates(pred_df.rows) \cup Slates(OtherWay(pred_df.rows)) :
            s = slate.value

-----------------------------------------------------------------------------
(* label_props_from_master.py: the best book of a quote *)

\* GAME_DATE of a quote: the UTC calendar date of its commence_time
WithGameDate(props0) ==
    [i \in 1..Len(props0) |-> props0[i] @@ [GAME_DATE |-> props0[i].utc_date]]

\* props[props["book_key"].isin(BOOK_PRIORITY)]
LabelInBooks(props0) ==
    SelectSeq(props0, LAMBDA q : \E k \in 1..Len(BOOK_PRIORITY) : BOOK_PRIORITY[k] = q.book_key)

\* sort_values("book_rank"): one column, so the default quicksort, which is not
\* stable: the frames the call may return
ByBookRank(rows) ==
    {[k \in 1..Len(rows) |-> rows[o[k]]] :
        o \in {x \in Orderings(1..Len(rows)) :
                  \A i, j \in 1..Len(rows) :
                      i < j => rows[x[i]].book_rank <= rows[x[j]].book_rank}}

\* the frames props may be after the dedupe on [event_id, player, line, GAME_DATE]
LabelBestBooks(props0) ==
    {DropDuplicatesFirst(sorted, {"event_id", "player", "line", "GAME_DATE"}) :
        sorted \in ByBookRank(BookRanked(LabelInBooks(props0)))}

-----------------------------------------------------------------------------
(* The quotes of several books as a state machine *)

S_draftkings == <<"d", "r", "a", "f", "t", "k", "i", "n", "g", "s">>

BookKeys == {S_fanduel, S_bet365, S_draftkings}

BookLines == {<<13, 2>>, <<15, 2>>}

\* the price of the over at a book: the books differ in it
BookOdds(b) ==
    CASE b = S_fanduel -> R(-110) [] b = S_bet365 -> R(-115) [] OTHER -> R(-105)

\* the quote of book b for player 1 at line l in game e; the games tip off in
\* the evening, the next day by the UTC calendar
BookQuote(e, l, b) ==
    [event_id |-> Events[e].event_id, commence_date |-> Events[e].commence_date,
     utc_date |-> Events[e].commence_date + 1,
     home_team |-> Events[e].home_team, away_team |-> Events[e].away_team,
     player |-> PLAYER_NAME(1), line |-> l,
     odds_over |-> BookOdds(b), odds_under |-> R(-110),
     p_over_implied |-> american_to_implied(BookOdds(b)),
     p_under_implied |-> american_to_implied(R(-110)),
     book_key |-> b]

InitBooks == Idle /\ arg = <<>> /\ out = Pending

\* a book posts a quote; the table has one row per (event, player, line, book)
PostQuote(e, l, b) ==
    /\ out = Pending
    /\ Len(arg) < MaxQuotes
    /\ \A i \in 1..Len(arg) : arg[i] # BookQuote(e, l, b)
    /\ arg' = Append(arg, BookQuote(e, l, b))
    /\ UNCHANGED <<featVars, inferVars, out, pipeVars>>

\* predict_today_assists_props_regression.main, lines 335-343
ResolveAssistsBooks ==
    /\ out = Pending
    /\ out' = Returned([path |-> "assists", rows |-> BestBookProps(arg)])
    /\ UNCHANGED <<featVars, inferVars, arg, pipeVars>>

\* predict_today_points_prop.main, lines 212-217
ResolvePointsBooks ==
    /\ out = Pending
    /\ out' = Returned([path |-> "points", rows |-> PointsBestBook(arg)])
    /\ UNCHANGED <<featVars, inferVars, arg, pipeVars>>

\* label_props_from_master.main, lines 27-40
ResolveLabelBooks ==
    /\ out = Pending
    /\ \E rows \in LabelBestBooks(WithGameDate(arg)) :
          out' = Returned([path |-> "label", rows |-> rows])
    /\ UNCHANGED <<featVars, inferVars, arg, pipeVars>>

NextBooks ==
    \/ \E e \in {1, 2} : \E l \in BookLines : \E b \in BookKeys : PostQuote(e, l, b)
    \/ ResolveAssistsBooks
    \/ ResolvePointsBooks
    \/ ResolveLabelBooks

SpecBooks == InitBooks /\ [][NextBooks]_vars

-----------------------------------------------------------------------------
(* C21: bookmaker priority *)

QuoteKey(q) == <<q.event_id, q.player, q.line>>

\* the place of a book in the priority: fanduel before bet365, no other book
PriorityOf(b) == IF b = S_fanduel THEN 0 ELSE IF b = S_bet365 THEN 1 ELSE 2

Retained == IF out.status = "done" THEN out.value.rows ELSE <<>>

\* C21: after the resolution every retained quote is a quote of the table from
\* a priority book, there is exactly one retained quote for every
\* (event id, player, line) a priority book quotes, and it comes from the
\* highest-priority book among the books quoting that key.
C21_BestBookPerQuote ==
    out.status = "done" =>
        /\ \A i \in 1..Len(Retained) :
              /\ PriorityOf(Retained[i].book_key) < 2
              /\ \E j \in 1..Len(arg) :
                    /\ QuoteKey(arg[j]) = QuoteKey(Retained[i])
                    /\ arg[j].book_key = Retained[i].book_key
                    /\ arg[j].odds_over = Retained[i].odds_over
        /\ \A j \in 1..Len(arg) :
              PriorityOf(arg[j].book_key) < 2 =>
                  /\ Cardinality({i \in 1..Len(Retained) :
                                     QuoteKey(Retained[i]) = QuoteKey(arg[j])}) = 1
                  /\ \A i \in 1..Len(Retained) :
                        QuoteKey(Retained[i]) = QuoteKey(arg[j]) =>
                            PriorityOf(Retained[i].book_key) <= PriorityOf(arg[j].book_key)

\* the labelling has resolved a table where bet365 and a book outside the
\* priority quote a key before fanduel does
C21_Witness ==
    /\ out.status = "done"
    /\ out.value.path = "label"
    /\ \E i, j, k \in 1..Len(arg) :
          /\ i < k /\ j < k
          /\ QuoteKey(arg[i]) = QuoteKey(arg[k]) /\ QuoteKey(arg[j]) = QuoteKey(arg[k])
          /\ arg[i].book_key = S_bet365
          /\ arg[j].book_key = S_draftkings
          /\ arg[k].book_key = S_fanduel
          /\ \E r \in 1..Len(Retained) :
                Retained[r].book_key = S_fanduel /\ QuoteKey(Retained[r]) = QuoteKey(arg[k])

-----------------------------------------------------------------------------
(* run_today_pipeline.py *)

\* the scripts of STEPS, in the order of the list, with the category of each
STEPS ==
    <<[category |-> "shared", script |-> "data/raw/fetch_current_player_teams.py"],
      [category |-> "points", script |-> "odds/fetch_points_props_oddsapi.py"],
      [category |-> "points", script |-> "odds/normalize_points_props.py"],
      [category |-> "points", script |-> "inference/predict_today_points_props_regression.py"],
      [category |-> "assists", script |-> "odds/fetch_assists_props_oddsapi.py"],
      [category |-> "assists", script |-> "odds/normalize_assists_props.py"],
      [category |-> "assists", script |-> "inference/predict_today_assists_props_regression.py"],
      [category |-> "rebounds", script |-> "odds/fetch_rebounds_props_oddsapi.py"],
      [category |-> "rebounds", script |-> "odds/normalize_rebounds_props.py"],
      [category |-> "rebounds", script |-> "inference/predict_today_rebounds_props_regression.py"]>>

\* the paths main hands to require, in the order of the calls
RequiredFiles ==
    <<"models/minutes_xgb.json",
      "data/raw/player_game_logs.csv",
      "data/raw/fetch_current_player_teams.py",
      "odds/fetch_points_props_oddsapi.py",
      "odds/normalize_points_props.py",
      "inference/predict_today_points_props_regression.py",
      "odds/fetch_assists_props_oddsapi.py",
      "odds/normalize_assists_props.py",
      "inference/predict_today_assists_props_regression.py",
      "odds/fetch_rebounds_props_oddsapi.py",
      "odds/normalize_rebounds_props.py",
      "inference/predict_today_rebounds_props_regression.py">>

AssistsInference == "inference/predict_today_assists_props_regression.py"

AssistsNormalize == "odds/normalize_assists_props.py"

\* the exit codes of a child process: success, an uncaught exception, sys.exit(2)
ExitCodes == {0, 1, 2}

\* require(path): the check passes, or the process exits with status 1
AfterRequire(pl) ==
    IF RequiredFiles[pl.checked + 1] \in pl.missing
    THEN [pl EXCEPT !.pc = "exit1"]
    ELSE [pl EXCEPT !.checked = @ + 1,
                    !.pc = IF pl.checked + 1 = Len(RequiredFiles) THEN "running" ELSE @]

\* a run_step that goes on to the next step whatever the child returned
AfterStepKeepGoing(pl, k, code) ==
    [pl EXCEPT !.started = Append(@, STEPS[k].script), !.codes = Append(@, code)]

\* run_step(title, cmd) of step k whose child exits with code: a non-zero code
\* prints PIPELINE STOPPED and exits with status 1
AfterStep(pl, k, code) ==
    [pl EXCEPT !.started = Append(@, STEPS[k].script),
               !.codes = Append(@, code),
               !.pc = IF code # 0 THEN "exit1" ELSE @]

\* the step the loop of main is at
NextStep(pl) == Len(pl.codes) + 1

\* python exits with 1 when main raises and with 0 when main returns
ExitOfMain(frame) == IF frame.status = "raised" THEN 1 ELSE 0

\* the log holds MaxHist games or one more, the roster file is yesterday's and
\* no quotes are normalized yet
InitPipeline ==
    /\ order = "asc"
    /\ fmt = "nba"
    /\ \E n \in {MaxHist, MaxHist + 1} : log = History(n, order, fmt)
    /\ fetched = 0
    /\ train = NoFrame
    /\ columns = {}
    /\ latest = NoFrame
    /\ team_def = NoFrame
    /\ props = <<>>
    /\ \E roster \in Rosters : team_map = TeamMapOf(roster)
    /\ pred_df = NoFrame
    /\ slate = Pending
    /\ points_props = <<>>
    /\ points_out = NoFrame
    /\ pipeline = NotStarted
    /\ arg = <<>>
    /\ out = Pending

\* python run_today_pipeline.py, on a disk where the files of m are missing
StartPipeline(m) ==
    /\ pipeline.pc = "idle"
    /\ pipeline' = [pipeline EXCEPT !.pc = "checking", !.missing = m]
    /\ UNCHANGED <<featVars, inferVars, helperVars>>

Require ==
    /\ pipeline.pc = "checking"
    /\ pipeline' = AfterRequire(pipeline)
    /\ UNCHANGED <<featVars, inferVars, helperVars>>

\* a step other than the assists inference: the normalize step of the assists
\* writes the quotes of game e for the players ps when it succeeds
RunStep(code, e, ps) ==
    /\ pipeline.pc = "running"
    /\ NextStep(pipeline) <= Len(STEPS)
    /\ STEPS[NextStep(pipeline)].script # AssistsInference
    /\ pipeline' = AfterStep(pipeline, NextStep(pipeline), code)
    /\ props' = IF STEPS[NextStep(pipeline)].script = AssistsNormalize /\ code = 0
                THEN PropsOf(e, ps) ELSE props
    /\ UNCHANGED <<featVars, team_map, pred_df, slate, points_props, points_out, helperVars>>

\* the assists inference step: main of the script runs as the child
RunAssistsInference ==
    /\ pipeline.pc = "running"
    /\ NextStep(pipeline) <= Len(STEPS)
    /\ STEPS[NextStep(pipeline)].script = AssistsInference
    /\ MainAssists
    /\ pipeline' = AfterStep(pipeline, NextStep(pipeline), ExitOfMain(pred_df'))

\* the loop is over: PIPELINE COMPLETE
Complete ==
    /\ pipeline.pc = "running"
    /\ NextStep(pipeline) > Len(STEPS)
    /\ pipeline' = [pipeline EXCEPT !.pc = "complete"]
    /\ UNCHANGED <<featVars, inferVars, helperVars>>

NextPipeline ==
    \/ \E m \in {{}} \cup {{RequiredFiles[i]} : i \in 1..Len(RequiredFiles)} : StartPipeline(m)
    \/ Require
    \/ \E code \in ExitCodes : \E e \in {1, 2, 6} : \E ps \in {{1}, {3}, {1, 2}} :
           RunStep(code, e, ps)
    \/ RunAssistsInference
    \/ Complete

SpecPipeline == InitPipeline /\ [][NextPipeline]_vars

-----------------------------------------------------------------------------
(* C22: a run without a scoreable row *)

\* C22: when the assists inference ends with no scoreable row, the run aborts:
\* the child exits with a non-zero code and writes no slate, and the pipeline
\* starts no later step and does not report completion.
C22_EmptyRunAborts ==
    \A k \in 1..Len(pipeline.codes) :
        (pipeline.started[k] = AssistsInference /\ pred_df.status = "empty") =>
            /\ pipeline.codes[k] # 0
            /\ slate = Pending
            /\ Len(pipeline.started) = k
            /\ pipeline.pc = "exit1"

-----------------------------------------------------------------------------
(* C26: the order of the pipeline *)

\* fetch, then normalize, then inference, for the points, the assists and the
\* rebounds, after the roster update
StepOrder ==
    <<"data/raw/fetch_current_player_teams.py",
      "odds/fetch_points_props_oddsapi.py", "odds/normalize_points_props.py",
      "inference/predict_today_points_props_regression.py",
      "odds/fetch_assists_props_oddsapi.py", "odds/normalize_assists_props.py",
      "inference/predict_today_assists_props_regression.py",
      "odds/fetch_rebounds_props_oddsapi.py", "odds/normalize_rebounds_props.py",
      "inference/predict_today_rebounds_props_regression.py">>

\* C26: no step starts before every required file check has passed; the steps
\* run in the order of STEPS; a step starts only after every earlier step
\* exited with code 0; after the first non-zero exit no step runs and the
\* process exits with status 1; PIPELINE COMPLETE is reached only when every
\* step exited with code 0.
C26_PipelineOrder ==
    /\ pipeline.started # <<>> =>
          /\ pipeline.checked = Len(RequiredFiles)
          /\ \A i \in 1..Len(RequiredFiles) : RequiredFiles[i] \notin pipeline.missing
    /\ Len(pipeline.started) = Len(pipeline.codes)
    /\ Len(pipeline.started) <= Len(StepOrder)
    /\ \A k \in 1..Len(pipeline.started) : pipeline.started[k] = StepOrder[k]
    /\ \A k \in 1..(Len(pipeline.codes) - 1) : pipeline.codes[k] = 0
    /\ (\E k \in 1..Len(pipeline.codes) : pipeline.codes[k] # 0) => pipeline.pc = "exit1"
    /\ pipeline.pc = "complete" =>
          /\ Len(pipeline.codes) = Len(StepOrder)
          /\ \A k \in 1..Len(pipeline.codes) : pipeline.codes[k] = 0

\* the pipeline has stopped at the fetch of the rebounds, after an assists
\* inference that wrote a slate
C26_Witness ==
    /\ pipeline.pc = "exit1"
    /\ Len(pipeline.codes) = 8
    /\ pipeline.codes[8] # 0
    /\ slate.status = "done"

-----------------------------------------------------------------------------
(* build_assists_features.py and build_minutes_features.py *)

\* the columns of feature_cols that can be missing (the flags are integers)
AssistsFeatureCols ==
    {"min_last5", "min_last10", "min_std_last10", "pts_last10", "rest_days",
     "ast_last10", "ast_per_min_last10", "ast_std_last10"}

MinutesFeatureCols ==
    {"min_last5", "min_last10", "min_std_last10", "pts_last10", "rest_days"}

\* a row of pdf in build_assists_features: the feature columns, which the loop
\* computes as build_latest_player_features does, and the target
AssistsTrainRow(r, f) ==
    [GAME_ID |-> r.GAME_ID, TEAM_ID |-> r.TEAM_ID, PLAYER_ID |-> r.PLAYER_ID,
     GAME_DATE |-> r.GAME_DATE, MIN |-> r.MIN,
     min_last5 |-> f.min_last5, min_last10 |-> f.min_last10,
     min_std_last10 |-> f.min_std_last10, pts_last10 |-> f.pts_last10,
     rest_days |-> f.rest_days, is_b2b |-> f.is_b2b, is_home |-> f.is_home,
     is_starter |-> f.is_starter,
     ast_last10 |-> f.ast_last10, ast_per_min_last10 |-> f.ast_per_min_last10,
     ast_std_last10 |-> f.ast_std_last10,
     delta_ast_per_min |-> Sub(Div(r.AST, r.MIN), f.ast_per_min_last10)]

\* pdf of one player, sorted by GAME_DATE, at the end of the loop body
AssistsTrainFrame(pdf) ==
    [i \in 1..Len(pdf) |-> AssistsTrainRow(pdf[i], AssistsFeatureRow(pdf, i))]

\* keep: MIN >= 5, dropna, the target clipped to [-0.25, 0.25]
AssistsKeep(frame) ==
    LET kept == DropNa(SelectSeq(frame, LAMBDA r : CellGE(r.MIN, 5)),
                       AssistsFeatureCols \cup {"delta_ast_per_min"})
    IN  [i \in 1..Len(kept) |->
            [kept[i] EXCEPT !.delta_ast_per_min = Clip(@, <<-1, 4>>, <<1, 4>>)]]

\* the frames of the players of nba, in the order of groupby
AssistsTrainFrames(groups) ==
    [g \in 1..Len(groups) |-> AssistsTrainFrame(SortValues(groups[g], <<"GAME_DATE">>))]

TrainResult(frames, rows) ==
    [status |-> IF rows = <<>> THEN "raised" ELSE "ok", frame |-> Concat(frames), rows |-> rows]

AssistsTrainOf(frames) ==
    TrainResult(frames, Concat([g \in 1..Len(frames) |-> AssistsKeep(frames[g])]))

\* build_assists_features.main: "raised" when no player has a training row
build_assists_features(nba) ==
    AssistsTrainOf(AssistsTrainFrames(
        GroupBy(SortValues(nba, <<"PLAYER_ID", "GAME_DATE">>), "PLAYER_ID")))

\* a row of df in build_minutes_features
MinutesTrainRow(r, f) ==
    [PLAYER_ID |-> r.PLAYER_ID, GAME_DATE |-> r.GAME_DATE,
     min_last5 |-> f.min_last5, min_last10 |-> f.min_last10,
     min_std_last10 |-> f.min_std_last10, pts_last10 |-> f.pts_last10,
     rest_days |-> f.rest_days, is_b2b |-> f.is_b2b, is_home |-> f.is_home,
     is_starter |-> f.is_starter, MIN_TARGET |-> r.MIN]

\* the rows of one player of df, which is sorted by [PLAYER_ID, GAME_DATE]
MinutesTrainFrame(pdf) ==
    [i \in 1..Len(pdf) |-> MinutesTrainRow(pdf[i], AssistsFeatureRow(pdf, i))]

MinutesTrainFrames(groups) == [g \in 1..Len(groups) |-> MinutesTrainFrame(groups[g])]

MinutesTrainOf(frames) ==
    [status |-> "ok", frame |-> Concat(frames),
     rows |-> DropNa(Concat(frames), MinutesFeatureCols \cup {"MIN_TARGET"})]

\* build_minutes_features.main
build_minutes_features(df) ==
    MinutesTrainOf(MinutesTrainFrames(
        GroupBy(SortValues(df, <<"PLAYER_ID", "GAME_DATE">>), "PLAYER_ID")))

\* build_points_features.main with df_feat before the dropna
PointsTrainOf(frame, built) ==
    [status |-> built.status,
     frame |-> IF built.status = "ok" THEN frame ELSE <<>>,
     rows |-> built.rows]

-----------------------------------------------------------------------------
(* The three feature builders over one log *)

\* a builder reads the log into arg and leaves its frames in out
BuildFrom(result) ==
    /\ out = Pending
    /\ arg' = log
    /\ out' = Returned(result)
    /\ UNCHANGED <<featVars, inferVars, pipeVars>>

RestPoints ==
    BuildFrom([script |-> "points"] @@ PointsTrainOf(PointsFeatureFrame(log), build_features(log)))

RestAssists == BuildFrom([script |-> "assists"] @@ build_assists_features(log))

RestMinutes == BuildFrom([script |-> "minutes"] @@ build_minutes_features(log))

\* the log grows while no builder has run
LogGameBefore(pr) == out = Pending /\ LogGame(pr)

NextRest ==
    \/ \E pr \in Profiles : LogGameBefore(pr)
    \/ RestPoints
    \/ RestAssists
    \/ RestMinutes

SpecRest == Init /\ [][NextRest]_vars

-----------------------------------------------------------------------------
(* C23: rest days *)

\* the dates of the events of player p in log l before date d
EarlierDates(l, p, d) == {r.GAME_DATE : r \in PriorEvents(l, p, d)}

Built == IF out.status = "done" THEN out.value ELSE [script |-> "", frame |-> <<>>, rows |-> <<>>]

\* C23: in the frames of the three builders, rest_days of a player's row is
\* the number of days since that player's preceding event; on the player's
\* first event it is missing, not 0, is_b2b is 0 there, and no output row,
\* every one of which needs rest_days, is that event.
C23_RestDays ==
    /\ \A i \in 1..Len(Built.frame) :
          LET r == Built.frame[i]
              before == EarlierDates(arg, r.PLAYER_ID, r.GAME_DATE)
          IN  IF before = {}
              THEN /\ IsNaN(r.rest_days)
                   /\ Built.script # "points" => r.is_b2b = 0
                   /\ \A k \in 1..Len(Built.rows) :
                         ~(Built.rows[k].PLAYER_ID = r.PLAYER_ID
                           /\ Built.rows[k].GAME_DATE = r.GAME_DATE)
              ELSE \E d \in before :
                      /\ \A e \in before : e <= d
                      /\ r.rest_days = R(r.GAME_DATE - d)
    /\ \A k \in 1..Len(Built.rows) : ~IsNaN(Built.rows[k].rest_days)

\* the assists builder has written training rows, one of them a back-to-back,
\* from a log whose first events it left out
C23_Witness ==
    /\ out.status = "done"
    /\ Built.script = "assists"
    /\ \E i \in 1..Len(Built.frame) : IsNaN(Built.frame[i].rest_days)
    /\ \E k \in 1..Len(Built.rows) :
          Built.rows[k].rest_days = R(1) /\ Built.rows[k].is_b2b = 1

-----------------------------------------------------------------------------
(* The caller's table across a call of a feature builder *)

\* pd.read_csv: the rows of the file, GAME_DATE read as text
ReadCsv(l) == [GAME_DATE_dtype |-> "object", rows |-> l]

\* pd.to_datetime(df["GAME_DATE"]) assigned to the column
ToDatetime(df) == [df EXCEPT !.GAME_DATE_dtype = "datetime64[ns]"]

\* the table a name of the callee is bound to and whether it is the object the
\* caller passed: df.copy() and sort_values bind the name to a new object, an
\* assignment to a column writes into the object the name is bound to
Passed(df) == [caller |-> df, local |-> df, alias |-> TRUE]

Statement(env, st) ==
    CASE st = "copy" -> [env EXCEPT !.alias = FALSE]
      [] st = "sort_values" -> [env EXCEPT !.alias = FALSE]
      [] st = "to_datetime" ->
             [env EXCEPT !.local = ToDatetime(@),
                         !.caller = IF env.alias THEN ToDatetime(@) ELSE @]
      [] OTHER -> env

RECURSIVE Execute(_, _)
Execute(env, body) ==
    IF body = <<>> THEN env ELSE Execute(Statement(env, Head(body)), Tail(body))

\* the statements that touch the parameter, in the order of the body
BuildFeaturesBody == <<"to_datetime", "sort_values">>

AssistsLatestFeaturesBody == <<"copy", "to_datetime", "sort_values">>

PointsLatestFeaturesBody == <<"copy", "to_datetime", "sort_values">>

TeamDefenseBody == <<"copy", "to_datetime">>

FeatureBuilders ==
    [build_features |-> BuildFeaturesBody,
     assists_build_latest_player_features |-> AssistsLatestFeaturesBody,
     points_build_latest_player_features |-> PointsLatestFeaturesBody,
     build_latest_team_defense |-> TeamDefenseBody]

\* the caller reads the log and calls builder fn on the table; arg is the
\* caller's table after the call
CallBuilder(fn) ==
    /\ out = Pending
    /\ arg' = Execute(Passed(ReadCsv(log)), FeatureBuilders[fn]).caller
    /\ out' = Returned(fn)
    /\ UNCHANGED <<featVars, inferVars, pipeVars>>

NextFrames ==
    \/ \E pr \in Profiles : LogGameBefore(pr)
    \/ \E fn \in DOMAIN FeatureBuilders : CallBuilder(fn)

SpecFrames == Init /\ [][NextFrames]_vars

-----------------------------------------------------------------------------
(* C24: the inputs stay as they were *)

\* C24: after build_features(df), build_latest_player_features(nba) or
\* build_latest_team_defense(nba) returns, the caller's table has the columns
\* and values it had before the call.
C24_InputsUnchanged == out.status = "done" => arg = ReadCsv(log)

-----------------------------------------------------------------------------
(* The selection over a day of many overs and a few unders *)

\* the day has up to MaxMix players, one candidate each; the candidate of the
\* i-th player has the i-th largest edge, on the under for the players lo..hi
\* and on the over for the others.  The prices are -110 on both sides.
MixRow(i, lo, hi) ==
    LET best == Frac(1500 - 100 * i, 10000)
        other == Sub(Sub(R(0), best), <<1, 21>>)
        under == lo <= i /\ i <= hi
    IN  WithBestSide(
            [event_id |-> i,
             player_norm |-> <<"p", LowerChars[i]>>,
             line |-> <<11, 2>>,
             odds_over |-> R(-110), odds_under |-> R(-110),
             edge_over |-> IF under THEN other ELSE best,
             edge_under |-> IF under THEN best ELSE other])

MixFrame(n, lo, hi) == [i \in 1..n |-> MixRow(i, lo, hi)]

InitTop ==
    /\ order = "asc"
    /\ fmt = "nba"
    /\ log = <<>>
    /\ fetched = 0
    /\ train = NoFrame
    /\ columns = {}
    /\ latest = NoFrame
    /\ team_def = NoFrame
    /\ props = <<>>
    /\ team_map = <<>>
    /\ slate = Pending
    /\ points_props = <<>>
    /\ points_out = NoFrame
    /\ pipeline = NotStarted
    /\ arg = <<>>
    /\ out = Pending
    /\ \E n \in 1..MaxMix : \E lo \in 1..(n + 1) : \E hi \in (lo - 1)..n :
          pred_df = [status |-> "ok", rows |-> MixFrame(n, lo, hi)]

SpecTop == InitTop /\ [][SelectSlate]_vars

-----------------------------------------------------------------------------
(* C25: the top 11 overall *)

\* C25: the slate is the top 11 overall, an under skipped only once 5 unders
\* are taken: no OVER candidate left out of the slate has a strictly higher
\* rating than an UNDER pick of the slate.
C25_TopOverall ==
    slate.status = "done" =>
        \A i \in 1..Len(pred_df.rows) :
            (pred_df.rows[i].best_side = "OVER" /\ ~HasPick(pred_df.rows[i].player_norm)) =>
                \A k \in 1..Len(slate.value.unders) :
                    ~Less(slate.value.unders[k].ai_rating, pred_df.rows[i].ai_rating)

-----------------------------------------------------------------------------
(* add_opp_team_id.py over a raw log with games of one team *)

\* a game is fetched into the log with the rows of the tracked team only: the
\* opponent's rows are not in the file
LogOneTeamGame(pr) ==
    /\ fetched < MaxNew
    /\ fetched' = fetched + 1
    /\ log' = SelectSeq(AddGame(log, order, fmt, pr),
                        LAMBDA r : r.GAME_ID <= NumGames(log) \/ r.TEAM_ID = 1)
    /\ train' = NoFrame
    /\ columns' = {}
    /\ latest' = NoFrame
    /\ team_def' = NoFrame
    /\ pred_df' = NoFrame
    /\ slate' = Pending
    /\ points_out' = NoFrame
    /\ UNCHANGED <<order, fmt, props, team_map, points_props, helperVars, pipeVars>>

NextOpp ==
    \/ \E pr \in Profiles : LogGame(pr)
    \/ \E pr \in Profiles : LogOneTeamGame(pr)
    \/ BuildPointsFeatures
    \/ AddOppTeamId

SpecOpp == Init /\ [][NextOpp]_vars

-----------------------------------------------------------------------------
(* C27: the opponent of a row *)

\* the teams with a row of game g in the raw log
TeamsOfGame(g) == {log[i].TEAM_ID : i \in {j \in 1..Len(log) : log[j].GAME_ID = g}}

\* C27: in every row of the rewritten processed file OPP_TEAM_ID is the other
\* team of the row's GAME_ID and never the row's own TEAM_ID; no row of a game
\* that has not exactly two teams in the raw log is left in the file.
C27_OppIsOtherTeam ==
    columns = {"OPP_TEAM_ID"} =>
        \A i \in 1..Len(train.rows) :
            /\ train.rows[i].OPP_TEAM_ID # train.rows[i].TEAM_ID
            /\ TeamsOfGame(train.rows[i].GAME_ID)
                   = {train.rows[i].TEAM_ID, train.rows[i].OPP_TEAM_ID}
            /\ Cardinality(TeamsOfGame(train.rows[i].GAME_ID)) = 2

-----------------------------------------------------------------------------
(* C28: the two edges of a candidate *)

\* C28: on every scored row the implied probabilities are those of the two
\* prices and edge_over + edge_under = 1 - (p_over_implied + p_under_implied),
\* stated as edge_under = (1 - (p_over_implied + p_under_implied)) - edge_over;
\* when the two implied probabilities sum to 1 or more, at most one of the two
\* edges is strictly positive.
C28_EdgesSum ==
    pred_df.status = "ok" =>
        \A i \in 1..Len(pred_df.rows) :
            LET r == pred_df.rows[i]
                market == Add(r.p_over_implied, r.p_under_implied)
            IN  /\ r.p_over_implied = american_to_implied(r.odds_over)
                /\ r.p_under_implied = american_to_implied(r.odds_under)
                /\ r.edge_under = Sub(Sub(R(1), market), r.edge_over)
                /\ ~Less(market, R(1)) =>
                       ~(Less(R(0), r.edge_over) /\ Less(R(0), r.edge_under))

\* a run that scores a quote with a margin and two different prices, one row
\* with a positive over edge and one with a positive under edge
C28_Witness ==
    /\ pred_df.status = "ok"
    /\ \E i, j \in 1..Len(pred_df.rows) :
          /\ pred_df.rows[i].odds_over # pred_df.rows[i].odds_under
          /\ Less(R(1), Add(pred_df.rows[i].p_over_implied, pred_df.rows[i].p_under_implied))
          /\ Less(R(0), pred_df.rows[i].edge_over)
          /\ Less(R(0), pred_df.rows[j].edge_under)

-----------------------------------------------------------------------------
(* normalize_assists_props.py, normalize_rebounds_props.py *)

S_Over == <<"O", "v", "e", "r">>
S_Under == <<"U", "n", "d", "e", "r">>
S_over == <<"o", "v", "e", "r">>
S_under == <<"u", "n", "d", "e", "r">>

\* the price of a side at a book: no two of them are equal
RawOdds(b, side) ==
    IF side = S_Over THEN BookOdds(b)
    ELSE CASE b = S_fanduel -> R(-112) [] b = S_bet365 -> R(-108) [] OTHER -> R(-118)

\* a row of the raw log: book b prices one side of player 1 at line l in game 1
RawQuote(l, b, side) ==
    [commence_time |-> Events[1].commence_date, event_id |-> Events[1].event_id,
     home_team |-> Events[1].home_team, away_team |-> Events[1].away_team,
     book_key |-> b, player |-> PLAYER_NAME(1), side |-> side, line |-> l,
     odds |-> RawOdds(b, side)]

\* df["side"].astype(str).str.lower().str.strip()
LowerSides(df) ==
    [i \in 1..Len(df) |-> [df[i] EXCEPT !.side = Strip(Lower(AsStr(df[i].side)))]]

\* df[df["side"].isin(["over", "under"])]
OverUnder(df) == SelectSeq(df, LAMBDA r : r.side \in {S_over, S_under})

\* sort_values([commence_time, event_id, player, line, book_rank]): several
\* columns, so a stable sort; the rows are of one game and one player
ByLineAndRank(df) ==
    LET keyed == [i \in 1..Len(df) |->
                     df[i] @@ ("sort_key" :> df[i].line[1] * Len(BOOK_PRIORITY) + df[i].book_rank)]
    IN  SortByColumn(keyed, "sort_key")

\* drop_duplicates(subset=[event_id, player, line, side], keep="first")
BestBookPerSide(sorted) == DropDuplicatesFirst(sorted, {"event_id", "player", "line", "side"})

\* the odds of a side among the rows of one index value, aggfunc="first"
FirstOdds(rows, side) ==
    LET of == SelectSeq(rows, LAMBDA r : r.side = side)
    IN  IF of = <<>> THEN NaN ELSE of[1].odds

\* pivot_table(index=[..., book_key, ..., player, line], columns="side",
\* values="odds", aggfunc="first"): one row per index value, in index order
PivotSides(df) ==
    LET same(a, b) == /\ a.event_id = b.event_id /\ a.book_key = b.book_key
                      /\ a.player = b.player /\ a.line = b.line
        heads == DropDuplicatesFirst(df, {"event_id", "book_key", "player", "line"})
        row(h) == [commence_time |-> h.commence_time, event_id |-> h.event_id,
                   home_team |-> h.home_team, away_team |-> h.away_team,
                   book_key |-> h.book_key, player |-> h.player, line |-> h.line,
                   odds_over |-> FirstOdds(SelectSeq(df, LAMBDA r : same(r, h)), S_over),
                   odds_under |-> FirstOdds(SelectSeq(df, LAMBDA r : same(r, h)), S_under),
                   sort_key |-> (IF h.book_key = S_bet365 THEN 0 ELSE 1) * 1000 + h.line[1]]
    IN  SortByColumn([i \in 1..Len(heads) |-> row(heads[i])], "sort_key")

\* rename and dropna(subset=["odds_over", "odds_under"]): a side without a row
\* has no column in the pivot and dropna stops with a KeyError
BothSides(best) ==
    IF \A side \in {S_over, S_under} : \E i \in 1..Len(best) : best[i].side = side
    THEN [status |-> "ok", rows |-> DropNa(PivotSides(best), {"odds_over", "odds_under"})]
    ELSE [status |-> "raised", rows |-> <<>>]

BestOf(df) == BothSides(BestBookPerSide(ByLineAndRank(BookRanked(df))))

\* the normalized file, or the error the script stops with
Normalized(inBooks) ==
    IF inBooks = <<>> THEN [status |-> "raised", rows |-> <<>>]
    ELSE IF OverUnder(inBooks) = <<>> THEN [status |-> "raised", rows |-> <<>>]
    ELSE BestOf(OverUnder(inBooks))

normalize_assists_props(raw) == Normalized(InBooks(KeyedBooks(LowerSides(raw))))

\* the rebounds script has no filter on the side: the sides are the columns
\* of the pivot
NormalizedAllSides(inBooks) ==
    IF inBooks = <<>> THEN [status |-> "raised", rows |-> <<>>] ELSE BestOf(inBooks)

normalize_rebounds_props(raw) == NormalizedAllSides(InBooks(KeyedBooks(LowerSides(raw))))

-----------------------------------------------------------------------------
(* The raw log of a fetch as a state machine *)

\* the fetch writes a row: a book prices a side of a line
PostRaw(l, b, side) ==
    /\ out = Pending
    /\ Len(arg) < MaxRaw
    /\ \A i \in 1..Len(arg) : arg[i] # RawQuote(l, b, side)
    /\ arg' = Append(arg, RawQuote(l, b, side))
    /\ UNCHANGED <<featVars, inferVars, out, pipeVars>>

NormalizeAssists ==
    /\ out = Pending
    /\ out' = Returned([script |-> "assists"] @@ normalize_assists_props(arg))
    /\ UNCHANGED <<featVars, inferVars, arg, pipeVars>>

NormalizeRebounds ==
    /\ out = Pending
    /\ out' = Returned([script |-> "rebounds"] @@ normalize_rebounds_props(arg))
    /\ UNCHANGED <<featVars, inferVars, arg, pipeVars>>

NextNormalize ==
    \/ \E l \in BookLines : \E b \in BookKeys : \E side \in {S_Over, S_Under} : PostRaw(l, b, side)
    \/ NormalizeAssists
    \/ NormalizeRebounds

SpecNormalize == InitBooks /\ [][NextNormalize]_vars

-----------------------------------------------------------------------------
(* C29: no complete quote is lost *)

\* book b prices the side of line l in the raw log
RawHas(l, b, side) == \E i \in 1..Len(arg) : arg[i] = RawQuote(l, b, side)

\* C29: for every line at which a priority book prices both the over and the
\* under in the raw log, the normalized file has a row of that line; and the
\* two prices of every row of the file are those of the row's one book.
C29_NoCompleteQuoteLost ==
    out.status = "done" =>
        /\ \A l \in BookLines :
              (\E k \in 1..Len(BOOK_PRIORITY) :
                  RawHas(l, BOOK_PRIORITY[k], S_Over) /\ RawHas(l, BOOK_PRIORITY[k], S_Under))
              => /\ out.value.status = "ok"
                 /\ \E i \in 1..Len(out.value.rows) : out.value.rows[i].line = l
        /\ \A i \in 1..Len(out.value.rows) :
              LET r == out.value.rows[i]
              IN  /\ RawHas(r.line, r.book_key, S_Over) /\ RawHas(r.line, r.book_key, S_Under)
                  /\ r.odds_over = RawOdds(r.book_key, S_Over)
                  /\ r.odds_under = RawOdds(r.book_key, S_Under)

-----------------------------------------------------------------------------
(* label_props_from_master.py, build_points_props_training_set.py: the game *)
(* of a quote.  GAME_DATE of the log is the calendar day of the game where  *)
(* it is played; commence_time of a quote is the tip-off in UTC, which for  *)
(* an evening game is past midnight, on the next calendar day.              *)

TipOffs == {"afternoon", "evening"}

\* pd.to_datetime(commence_time, utc=True).dt.date of a game played on local
\* day d
UtcDate(d, tip) == IF tip = "evening" THEN d + 1 ELSE d

\* label_props_from_master.norm
norm(s) ==
    Strip(Replace(Replace(Replace(Replace(Lower(AsStr(s)), <<".">>, <<>>), <<"'">>, <<>>),
                          <<" ", "j", "r">>, <<>>),
                  <<" ", "s", "r">>, <<>>))

\* the quote of book b for the points of player 1 in game g of log l, which
\* tips off at tip; the event id of game g is g
GameQuote(l, g, tip, b) ==
    [event_id |-> g, commence_date |-> GameDate(l, g),
     utc_date |-> UtcDate(GameDate(l, g), tip),
     home_team |-> TEAM_NAME(1), away_team |-> TEAM_NAME(OppTeam(g)),
     player |-> PLAYER_NAME(1), line |-> <<13, 2>>,
     odds_over |-> BookOdds(b), odds_under |-> R(-110),
     p_over_implied |-> american_to_implied(BookOdds(b)),
     p_under_implied |-> american_to_implied(R(-110)),
     book_key |-> b]

\* the log with the names of the players and the teams
NamedGames(l) ==
    [i \in 1..Len(l) |->
        l[i] @@ [PLAYER_NAME |-> PLAYER_NAME(l[i].PLAYER_ID),
                 TEAM_NAME |-> TEAM_NAME(l[i].TEAM_ID)]]

\* props.merge(games, on=[GAME_DATE, player_norm], how="inner") and y_over
LabelMerge(props0, games) ==
    LET Joined(q) ==
            LET m == SelectSeq(games, LAMBDA r : /\ r.GAME_DATE = q.GAME_DATE
                                                 /\ norm(r.PLAYER_NAME) = norm(q.player))
            IN  [k \in 1..Len(m) |->
                    [GAME_DATE |-> q.GAME_DATE, event_id |-> q.event_id, player |-> q.player,
                     PLAYER_ID |-> m[k].PLAYER_ID, GAME_ID |-> m[k].GAME_ID,
                     book_key |-> q.book_key, line |-> q.line,
                     PTS |-> m[k].PTS,
                     y_over |-> IF Less(q.line, m[k].PTS) THEN 1 ELSE 0]]
    IN  Concat([i \in 1..Len(props0) |-> Joined(props0[i])])

\* the frames label_props_from_master.main may write
label_props_from_master(props0, l) ==
    {LabelMerge(best, NamedGames(l)) : best \in LabelBestBooks(WithGameDate(props0))}

\* props_expanded: every quote once with the home team and once with the away
\* team
PropsExpanded(props0) ==
    [i \in 1..Len(props0) |-> props0[i] @@ [TEAM_NAME |-> props0[i].home_team]]
    \o [i \in 1..Len(props0) |-> props0[i] @@ [TEAM_NAME |-> props0[i].away_team]]

\* merge on [GAME_DATE_STR, team_norm, player_norm] and y_over
TrainingMerge(expanded, games) ==
    LET Joined(q) ==
            LET m == SelectSeq(games, LAMBDA r : /\ r.GAME_DATE = q.utc_date
                                                 /\ norm_team(r.TEAM_NAME) = norm_team(q.TEAM_NAME)
                                                 /\ norm_name(r.PLAYER_NAME) = norm_name(q.player))
            IN  [k \in 1..Len(m) |->
                    [GAME_DATE |-> q.utc_date, event_id |-> q.event_id, player |-> q.player,
                     PLAYER_ID |-> m[k].PLAYER_ID, GAME_ID |-> m[k].GAME_ID,
                     book_key |-> q.book_key, line |-> q.line,
                     PTS |-> m[k].PTS,
                     y_over |-> IF Less(q.line, m[k].PTS) THEN 1 ELSE 0]]
    IN  Concat([i \in 1..Len(expanded) |-> Joined(expanded[i])])

build_points_props_training_set(props0, l) ==
    TrainingMerge(PropsExpanded(props0), NamedGames(l))

-----------------------------------------------------------------------------
(* The labelling of the quotes of logged games as a state machine *)

\* a book posts its quote for game g; a game has one tip-off and a book one
\* quote of it
PostGameQuote(g, tip, b) ==
    /\ out = Pending
    /\ g \in 1..NumGames(log)
    /\ Len(arg) < MaxQuotes
    /\ \A i \in 1..Len(arg) :
          arg[i].event_id = g =>
              /\ arg[i].utc_date = UtcDate(GameDate(log, g), tip)
              /\ arg[i].book_key # b
    /\ arg' = Append(arg, GameQuote(log, g, tip, b))
    /\ UNCHANGED <<featVars, inferVars, out, pipeVars>>

LabelFromMaster ==
    /\ out = Pending
    /\ \E rows \in label_props_from_master(arg, log) :
          out' = Returned([script |-> "label", rows |-> rows])
    /\ UNCHANGED <<featVars, inferVars, arg, pipeVars>>

BuildTrainingSet ==
    /\ out = Pending
    /\ out' = Returned([script |-> "training",
                        rows |-> build_points_props_training_set(arg, log)])
    /\ UNCHANGED <<featVars, inferVars, arg, pipeVars>>

NextLabel ==
    \/ \E pr \in Profiles : LogGameBefore(pr)
    \/ \E g \in 1..MaxNew : \E tip \in TipOffs : \E b \in BookKeys : PostGameQuote(g, tip, b)
    \/ LabelFromMaster
    \/ BuildTrainingSet

SpecLabel == InitBooks /\ [][NextLabel]_vars

-----------------------------------------------------------------------------
(* C30: the game a quote is labelled with *)

\* C30: in every labelled row PTS and y_over are those of the player's logged
\* game the quote was posted for, whatever the time of day of the tip-off: the
\* row is never labelled with the player's game of another calendar day.
C30_LabelledWithOwnGame ==
    out.status = "done" =>
        \A i \in 1..Len(out.value.rows) :
            LET r == out.value.rows[i]
            IN  /\ r.GAME_ID = r.event_id
                /\ \E k \in 1..Len(log) :
                      /\ log[k].GAME_ID = r.event_id
                      /\ log[k].PLAYER_ID = r.PLAYER_ID
                      /\ log[k].PTS = r.PTS
                      /\ r.y_over = (IF Less(r.line, log[k].PTS) THEN 1 ELSE 0)

====
